---- MODULE Spec2Model ----
(***************************************************************************)
(* Datastar SDK for Fastify: the Stream Session (ServerSentEventGenerator), *)
(* the Event Encoder behind it, and the Session Lifecycle Manager           *)
(* (reply.datastar / reply.datastarStream) for ONE reply.                   *)
(*                                                                          *)
(* Text is a sequence of tokens; a token is a TLA+ string standing for one  *)
(* character or for one literal chunk of the source ("event: ").  A line    *)
(* break is the token "\n".  An absent (undefined) option is <<>>, a        *)
(* present one is <<value>>.                                                *)
(***************************************************************************)
EXTENDS Integers, Sequences, FiniteSets, TLC

\* Bounds of the model.
MaxOps == 2       \* operations issued on the session
MaxCloses == 2    \* explicit close() calls by the holder of the session
MaxTextLen == 2   \* tokens of an enumerated text argument
MaxEvents == 2    \* events of a request to the test server
MaxCalls == 2     \* further reply.datastar / reply.datastarStream calls on the reply
MaxOutput == 2    \* chunks the spawned server prints on stdout, and on stderr

\* ------------------------------------------------------------------------
\* Constants (constants.js)
\* ------------------------------------------------------------------------
SSERetryDuration == 1000

EventType == [PatchElements |-> <<"datastar-patch-elements">>,
              PatchSignals  |-> <<"datastar-patch-signals">>]

PatchMode == [Outer |-> <<"outer">>, Append |-> <<"append">>, Remove |-> <<"remove">>]

DataLine == [Selector |-> "selector", Mode |-> "mode", Elements |-> "elements",
             UseViewTransition |-> "useViewTransition", Signals |-> "signals",
             OnlyIfMissing |-> "onlyIfMissing"]

Defaults == [AutoRemove |-> TRUE, PatchMode |-> PatchMode.Outer]

\* ------------------------------------------------------------------------
\* JavaScript values
\* ------------------------------------------------------------------------
Undefined == <<>>
Some(v) == <<v>>

\* `options = {}`: every recognised key absent.
NoOptions == [selector |-> Undefined, mode |-> Undefined, useViewTransition |-> Undefined,
              onlyIfMissing |-> Undefined, autoRemove |-> Undefined,
              attributes |-> Undefined, eventId |-> Undefined,
              retryDuration |-> Undefined]

\* Truthiness of an optional string (undefined and "" are falsy) and of an
\* optional boolean (undefined and false are falsy).
TruthyStr(x) == x # Undefined /\ x[1] # <<>>
TruthyBool(x) == x # Undefined /\ x[1]

\* lines.join(sep)
RECURSIVE Join(_, _)
Join(lines, sep) ==
  IF Len(lines) = 0 THEN <<>>
  ELSE IF Len(lines) = 1 THEN lines[1]
  ELSE lines[1] \o <<sep>> \o Join(Tail(lines), sep)

\* text.split(sep): always at least one piece, empty pieces kept.
RECURSIVE SplitFrom(_, _, _)
SplitFrom(text, sep, cur) ==
  IF Len(text) = 0 THEN <<cur>>
  ELSE IF Head(text) = sep THEN <<cur>> \o SplitFrom(Tail(text), sep, <<>>)
  ELSE SplitFrom(Tail(text), sep, Append(cur, Head(text)))

Split(text, sep) == SplitFrom(text, sep, <<>>)

\* text.replace(/c/g, by): every token equal to c replaced by the tokens `by`.
RECURSIVE ReplaceAll(_, _, _)
ReplaceAll(text, c, by) ==
  IF Len(text) = 0 THEN <<>>
  ELSE (IF Head(text) = c THEN by ELSE <<Head(text)>>) \o ReplaceAll(Tail(text), c, by)

\* JSON.stringify of a value: a mapping is given as a sequence of <<key, value>>
\* pairs in insertion order, [pairs |-> ...]; a number is [num |-> n], a string
\* [str |-> text], an array [arr |-> ...], and there are [bool |-> b] and
\* [null |-> TRUE].
\* JSON.stringify quotes a string and escapes backslash, double quote and line
\* break in it.
JsonString(text) ==
  <<"\"">>
  \o ReplaceAll(ReplaceAll(ReplaceAll(text, "\\", <<"\\", "\\">>), "\"", <<"\\", "\"">>),
                "\n", <<"\\", "n">>)
  \o <<"\"">>

RECURSIVE JsonValue(_)
RECURSIVE JsonMembers(_)
RECURSIVE JsonElements(_)
JsonValue(v) ==
  CASE "num" \in DOMAIN v   -> <<ToString(v.num)>>
    [] "str" \in DOMAIN v   -> JsonString(v.str)
    [] "bool" \in DOMAIN v  -> IF v.bool THEN <<"true">> ELSE <<"false">>
    [] "null" \in DOMAIN v  -> <<"null">>
    [] "arr" \in DOMAIN v   -> <<"[">> \o JsonElements(v.arr) \o <<"]">>
    [] "pairs" \in DOMAIN v -> <<"{">> \o JsonMembers(v.pairs) \o <<"}">>

JsonElements(values) ==
  IF Len(values) = 0 THEN <<>>
  ELSE JsonValue(values[1]) \o (IF Len(values) > 1 THEN <<",">> ELSE <<>>)
       \o JsonElements(Tail(values))

JsonMembers(pairs) ==
  IF Len(pairs) = 0 THEN <<>>
  ELSE JsonString(pairs[1][1]) \o <<":">> \o JsonValue(pairs[1][2])
       \o (IF Len(pairs) > 1 THEN <<",">> ELSE <<>>) \o JsonMembers(Tail(pairs))

\* A faulty variant of JSON.stringify that renders the keys in reverse order.
JSONstringifyReversed(obj) ==
  <<"{">> \o JsonMembers([i \in 1..Len(obj.pairs) |-> obj.pairs[Len(obj.pairs) + 1 - i]])
  \o <<"}">>

JSONstringify(obj) == JsonValue(obj)

\* A signals / data argument is [str |-> text] (typeof === 'string') or
\* [pairs |-> <<...>>] (an object).
IsString(x) == "str" \in DOMAIN x

\* ------------------------------------------------------------------------
\* ServerSentEventGenerator (sse.js): the encoder.  Every method takes the
\* session's _isClosed flag and yields the transport writes it performs, in
\* order, and whether it raised.
\* ------------------------------------------------------------------------
SendResult(writes) == [writes |-> writes, raised |-> FALSE]

\* Faulty variants of _send: one that ignores _isClosed, one that writes a frame
\* in two chunks.  The properties below must tell them from _send.
_sendIgnoringClosed(closed, eventType, dataLines, options) ==
  SendResult(<< <<"event: ">> \o eventType \o <<"\n", "\n">> >>)

_sendInTwoWrites(closed, eventType, dataLines, options) ==
  IF closed THEN SendResult(<<>>)
  ELSE SendResult(<< <<"event: ">> \o eventType \o <<"\n">>, <<"\n">> >>)

\* A faulty variant of _send that puts the retry line before the id line.
_sendRetryFirst(closed, eventType, dataLines, options) ==
  IF closed THEN SendResult(<<>>)
  ELSE LET l1 == << <<"event: ">> \o eventType >>
           l2 == IF options.retryDuration # Undefined
                 THEN Append(l1, <<"retry: ", ToString(options.retryDuration[1])>>) ELSE l1
           l3 == IF TruthyStr(options.eventId)
                 THEN Append(l2, <<"id: ">> \o options.eventId[1]) ELSE l2
           l4 == l3 \o [i \in 1..Len(dataLines) |-> <<"data: ">> \o dataLines[i]]
       IN SendResult(<< Join(l4 \o << <<>>, <<>> >>, "\n") >>)

_send(closed, eventType, dataLines, options) ==
  IF closed THEN SendResult(<<>>)
  ELSE LET l1 == << <<"event: ">> \o eventType >>
           l2 == IF TruthyStr(options.eventId)
                 THEN Append(l1, <<"id: ">> \o options.eventId[1]) ELSE l1
           l3 == IF options.retryDuration # Undefined
                 THEN Append(l2, <<"retry: ", ToString(options.retryDuration[1])>>) ELSE l2
           l4 == l3 \o [i \in 1..Len(dataLines) |-> <<"data: ">> \o dataLines[i]]
           lines == l4 \o << <<>>, <<>> >>
       IN SendResult(<< Join(lines, "\n") >>)

send(closed, eventType, dataLines, options) == _send(closed, eventType, dataLines, options)

sendEvent(closed, eventType, data, options) ==
  LET dataLine == IF IsString(data) THEN data.str ELSE JSONstringify(data)
  IN _send(closed, eventType, <<dataLine>>, options)

\* A faulty variant of patchElements that writes the mode line for every mode,
\* the default included.
patchElementsWithDefaultMode(closed, elements, options) ==
  LET mode == IF TruthyStr(options.mode) THEN options.mode[1] ELSE Defaults.PatchMode
      d1 == << <<DataLine.Mode, " ">> \o mode >>
      d2 == IF TruthyStr(options.selector)
            THEN Append(d1, <<DataLine.Selector, " ">> \o options.selector[1]) ELSE d1
      d3 == IF TruthyBool(options.useViewTransition)
            THEN Append(d2, <<DataLine.UseViewTransition, " ", "true">>) ELSE d2
      elementLines == Split(elements, "\n")
      dataLines == d3 \o [i \in 1..Len(elementLines) |->
                            <<DataLine.Elements, " ">> \o elementLines[i]]
  IN _send(closed, EventType.PatchElements, dataLines,
           [NoOptions EXCEPT !.eventId = options.eventId,
                             !.retryDuration = options.retryDuration])

\* A faulty variant of patchElements that drops the empty lines of the elements.
patchElementsDroppingEmptyLines(closed, elements, options) ==
  LET d1 == IF TruthyStr(options.mode) /\ options.mode[1] # Defaults.PatchMode
            THEN << <<DataLine.Mode, " ">> \o options.mode[1] >> ELSE <<>>
      d2 == IF TruthyStr(options.selector)
            THEN Append(d1, <<DataLine.Selector, " ">> \o options.selector[1]) ELSE d1
      d3 == IF TruthyBool(options.useViewTransition)
            THEN Append(d2, <<DataLine.UseViewTransition, " ", "true">>) ELSE d2
      elementLines == SelectSeq(Split(elements, "\n"), LAMBDA l : l # <<>>)
      dataLines == d3 \o [i \in 1..Len(elementLines) |->
                            <<DataLine.Elements, " ">> \o elementLines[i]]
  IN _send(closed, EventType.PatchElements, dataLines,
           [NoOptions EXCEPT !.eventId = options.eventId,
                             !.retryDuration = options.retryDuration])

patchElements(closed, elements, options) ==
  LET d1 == IF TruthyStr(options.mode) /\ options.mode[1] # Defaults.PatchMode
            THEN << <<DataLine.Mode, " ">> \o options.mode[1] >> ELSE <<>>
      d2 == IF TruthyStr(options.selector)
            THEN Append(d1, <<DataLine.Selector, " ">> \o options.selector[1]) ELSE d1
      d3 == IF TruthyBool(options.useViewTransition)
            THEN Append(d2, <<DataLine.UseViewTransition, " ", "true">>) ELSE d2
      elementLines == Split(elements, "\n")
      dataLines == d3 \o [i \in 1..Len(elementLines) |->
                            <<DataLine.Elements, " ">> \o elementLines[i]]
  IN _send(closed, EventType.PatchElements, dataLines,
           [NoOptions EXCEPT !.eventId = options.eventId,
                             !.retryDuration = options.retryDuration])

patchSignals(closed, signals, options) ==
  LET d1 == IF TruthyBool(options.onlyIfMissing)
            THEN << <<DataLine.OnlyIfMissing, " ", "true">> >> ELSE <<>>
      signalsStr == IF IsString(signals) THEN signals.str ELSE JSONstringify(signals)
      dataLines == Append(d1, <<DataLine.Signals, " ">> \o signalsStr)
  IN _send(closed, EventType.PatchSignals, dataLines,
           [NoOptions EXCEPT !.eventId = options.eventId,
                             !.retryDuration = options.retryDuration])

\* attrs.join(' ') of the key="value" pairs, in the order supplied.
RECURSIVE AttrTexts(_)
AttrTexts(pairs) ==
  IF Len(pairs) = 0 THEN <<>>
  ELSE << pairs[1][1] \o <<"=\"">> \o pairs[1][2] \o <<"\"">> >> \o AttrTexts(Tail(pairs))

\* A faulty variant of executeScript whose autoRemove defaults to false.
executeScriptAutoRemoveOptIn(closed, script, options) ==
  LET a1 == IF options.attributes # Undefined THEN AttrTexts(options.attributes[1]) ELSE <<>>
      attrs == IF TruthyBool(options.autoRemove)
               THEN Append(a1, <<"data-on:load=\"this.remove()\"">>) ELSE a1
      attrStr == IF Len(attrs) > 0 THEN <<" ">> \o Join(attrs, " ") ELSE <<>>
      scriptElement == <<"<script">> \o attrStr \o <<">">> \o script \o <<"</script>">>
  IN patchElements(closed, scriptElement,
                   [NoOptions EXCEPT !.selector = Some(<<"body">>),
                                     !.mode = Some(PatchMode.Append),
                                     !.eventId = options.eventId,
                                     !.retryDuration = options.retryDuration])

executeScript(closed, script, options) ==
  LET a1 == IF options.attributes # Undefined THEN AttrTexts(options.attributes[1]) ELSE <<>>
      autoRemove == IF options.autoRemove # Undefined THEN options.autoRemove[1]
                    ELSE Defaults.AutoRemove
      attrs == IF autoRemove THEN Append(a1, <<"data-on:load=\"this.remove()\"">>) ELSE a1
      attrStr == IF Len(attrs) > 0 THEN <<" ">> \o Join(attrs, " ") ELSE <<>>
      scriptElement == <<"<script">> \o attrStr \o <<">">> \o script \o <<"</script>">>
  IN patchElements(closed, scriptElement,
                   [NoOptions EXCEPT !.selector = Some(<<"body">>),
                                     !.mode = Some(PatchMode.Append),
                                     !.eventId = options.eventId,
                                     !.retryDuration = options.retryDuration])

\* A faulty variant of removeElement that does not forward eventId and
\* retryDuration.
removeElementWithoutHeaders(closed, selector, options) ==
  patchElements(closed, <<>>,
                [NoOptions EXCEPT !.selector = Some(selector),
                                  !.mode = Some(PatchMode.Remove)])

removeElement(closed, selector, options) ==
  patchElements(closed, <<>>,
                [NoOptions EXCEPT !.selector = Some(selector),
                                  !.mode = Some(PatchMode.Remove),
                                  !.eventId = options.eventId,
                                  !.retryDuration = options.retryDuration])

removeElements(closed, selector, options) == removeElement(closed, selector, options)

redirect(closed, url, options) ==
  executeScript(closed, <<"setTimeout(() => window.location = \"">> \o url \o <<"\")">>,
                options)

replaceUrl(closed, url, options) ==
  executeScript(closed, <<"history.replaceState({}, '', \"">> \o url \o <<"\")">>, options)

EscapeMessage(message) ==
  ReplaceAll(ReplaceAll(message, "\\", <<"\\", "\\">>), "\"", <<"\\", "\"">>)

consoleLog(closed, message, options) ==
  executeScript(closed, <<"console.log(\"">> \o EscapeMessage(message) \o <<"\")">>, options)

consoleError(closed, message, options) ==
  executeScript(closed, <<"console.error(\"">> \o EscapeMessage(message) \o <<"\")">>, options)

\* A faulty variant of close() without the _isClosed guard.
closeWithoutGuard(closed) == [isClosed |-> TRUE, ends |-> 1, raised |-> FALSE]

\* A faulty variant of close() that reopens a closed session.
closeReopening(closed) == [isClosed |-> ~closed, ends |-> IF closed THEN 0 ELSE 1, raised |-> FALSE]

\* close(): what it does to _isClosed and how often it calls reply.raw.end().
close(closed) ==
  IF ~closed THEN [isClosed |-> TRUE, ends |-> 1, raised |-> FALSE]
  ELSE [isClosed |-> closed, ends |-> 0, raised |-> FALSE]

\* ------------------------------------------------------------------------
\* The Lifecycle Manager (plugin.js)
\* ------------------------------------------------------------------------
\* Plugin registration options; app.register(datastar) gives none.
PluginOptions == [defaultRetryDuration |-> Undefined]

PluginOptionsSet == {PluginOptions} \cup
                    {[defaultRetryDuration |-> Some(n)] : n \in {0, 500, 2000}}

\* A faulty variant that ignores the registered value.
defaultRetryDurationIgnored(options) == SSERetryDuration

defaultRetryDuration(options) ==
  IF options.defaultRetryDuration # Undefined /\ options.defaultRetryDuration[1] # 0
  THEN options.defaultRetryDuration[1] ELSE SSERetryDuration

\* A faulty variant of writeHead that sends headers a second time.
writeHeadUnchecked(sent) == [raised |-> FALSE, headersSent |-> TRUE]

\* reply.raw.writeHead(200, {...}) in initializeSSEStream: Node raises
\* ERR_HTTP_HEADERS_SENT when the headers of the response were sent already.
writeHead(sent) == [raised |-> sent, headersSent |-> TRUE]

\* initializeSSEStream: the chunk written after writeHead.
initializeSSEStream(retryDuration) == <<"retry: ", ToString(retryDuration), "\n", "\n">>

\* StreamOptions.  onError is absent ("none"), or a function that returns
\* ("returns") or that itself throws ("throws"); onAbort is set or not.
StreamOptionsSet == [keepAlive : BOOLEAN, onError : {"none", "returns", "throws"},
                     onAbort : BOOLEAN]

\* `streamOptions = {}`.
NoStreamOptions == [keepAlive |-> FALSE, onError |-> "none", onAbort |-> FALSE]

\* How the callback of reply.datastar terminates: it returns / its promise resolves,
\* or it throws / its promise rejects, with an Error instance or with another value.
Returned == [raised |-> FALSE, value |-> "", isError |-> FALSE]
Outcomes == {Returned,
             [raised |-> TRUE, value |-> "new Error('boom')", isError |-> TRUE],
             [raised |-> TRUE, value |-> "'boom'", isError |-> FALSE]}

\* Faulty variants of the catch / finally part of reply.datastar: close before
\* onError, close in the try block only, keepAlive ignored, no catch at all.
datastarCloseFirst(outcome, streamOptions) ==
  [calls |-> (IF ~streamOptions.keepAlive THEN <<"close">> ELSE <<>>)
             \o (IF outcome.raised /\ streamOptions.onError # "none" /\ outcome.isError
                 THEN <<"onError">> ELSE <<>>),
   rejects |-> outcome.raised /\ streamOptions.onError = "throws" /\ outcome.isError]

datastarCloseOnSuccessOnly(outcome, streamOptions) ==
  [calls |-> IF outcome.raised
             THEN (IF streamOptions.onError # "none" /\ outcome.isError
                   THEN <<"onError">> ELSE <<>>)
             ELSE (IF ~streamOptions.keepAlive THEN <<"close">> ELSE <<>>),
   rejects |-> outcome.raised /\ streamOptions.onError = "throws" /\ outcome.isError]

datastarIgnoringKeepAlive(outcome, streamOptions) ==
  [calls |-> (IF outcome.raised /\ streamOptions.onError # "none" /\ outcome.isError
              THEN <<"onError">> ELSE <<>>) \o <<"close">>,
   rejects |-> outcome.raised /\ streamOptions.onError = "throws" /\ outcome.isError]

datastarRethrowing(outcome, streamOptions) ==
  [calls |-> (IF outcome.raised /\ streamOptions.onError # "none" /\ outcome.isError
              THEN <<"onError">> ELSE <<>>)
             \o (IF ~streamOptions.keepAlive THEN <<"close">> ELSE <<>>),
   rejects |-> outcome.raised]

\* reply.datastar after `await callback(sse)`: the calls the catch and the finally
\* block make, in order, and whether the returned promise rejects (an exception
\* of onError leaves the catch block; the finally block still runs).
datastarCatchFinally(outcome, streamOptions) ==
  LET catchCalls == IF outcome.raised /\ streamOptions.onError # "none" /\ outcome.isError
                    THEN <<"onError">> ELSE <<>>
      finallyCalls == IF ~streamOptions.keepAlive THEN <<"close">> ELSE <<>>
  IN [calls |-> catchCalls \o finallyCalls,
      rejects |-> catchCalls # <<>> /\ streamOptions.onError = "throws"]

\* A faulty variant of the 'close' listener that never calls onAbort.
closeListenerSilent(streamOptions) == 0

\* The 'close' listener of reply.datastarStream: the onAbort calls it makes.
closeListener(streamOptions) == IF streamOptions.onAbort THEN 1 ELSE 0

\* ------------------------------------------------------------------------
\* The Signal Reader (signals.js)
\* ------------------------------------------------------------------------
\* A JSON value is [null |-> TRUE], [bool |-> b], [num |-> n], [str |-> text],
\* [arr |-> <<value, ...>>] or [pairs |-> << <<key, value>>, ... >>] (an object).
JsonNull == [null |-> TRUE]
EmptyObject == [pairs |-> <<>>]

IsObject(v) == "pairs" \in DOMAIN v

\* Truthiness of a JavaScript value that may be undefined.
Truthy(x) ==
  /\ x # Undefined
  /\ LET v == x[1]
     IN CASE "null" \in DOMAIN v -> FALSE
          [] "bool" \in DOMAIN v -> v.bool
          [] "num" \in DOMAIN v  -> v.num # 0
          [] "str" \in DOMAIN v  -> v.str # <<>>
          [] OTHER               -> TRUE

\* object[key]: undefined when the key is missing.
Get(object, key) ==
  IF \E i \in 1..Len(object.pairs) : object.pairs[i][1] = key
  THEN Some(object.pairs[CHOOSE i \in 1..Len(object.pairs) : object.pairs[i][1] = key][2])
  ELSE Undefined

\* An exception: a SyntaxError of JSON.parse or a URIError of decodeURIComponent.
Thrown(message) == [ok |-> FALSE, value |-> JsonNull, rest |-> <<>>, message |-> message]
Parsed(value, rest) == [ok |-> TRUE, value |-> value, rest |-> rest, message |-> <<>>]

UnexpectedEnd == Thrown(<<"Unexpected end of JSON input">>)
UnexpectedToken(token) == Thrown(<<"Unexpected token ", token, " in JSON">>)

\* JSON white space between tokens.
RECURSIVE SkipSpace(_)
SkipSpace(text) ==
  IF Len(text) > 0 /\ text[1] \in {" ", "\n"} THEN SkipSpace(Tail(text)) ELSE text

\* The characters of a JSON string after its opening quote.
RECURSIVE ParseString(_, _)
ParseString(text, acc) ==
  IF Len(text) = 0 THEN UnexpectedEnd
  ELSE IF text[1] = "\"" THEN Parsed([str |-> acc], Tail(text))
  ELSE IF text[1] = "\n" THEN UnexpectedToken(text[1])
  ELSE IF text[1] = "\\"
       THEN IF Len(text) < 2 THEN UnexpectedEnd
            ELSE IF text[2] \in {"\\", "\""}
                 THEN ParseString(SubSeq(text, 3, Len(text)), Append(acc, text[2]))
            ELSE IF text[2] = "n"
                 THEN ParseString(SubSeq(text, 3, Len(text)), Append(acc, "\n"))
            ELSE UnexpectedToken(text[2])
  ELSE ParseString(Tail(text), Append(acc, text[1]))

\* A number: a run of digit tokens without a leading zero, or one token that
\* is a whole numeral such as "42".
IsDigit(token) == \E n \in 0..9 : ToString(n) = token
IsNumeral(token) == \E n \in 0..99 : ToString(n) = token

RECURSIVE ParseDigits(_, _)
ParseDigits(text, acc) ==
  IF Len(text) > 0 /\ IsDigit(text[1])
  THEN ParseDigits(Tail(text), acc * 10 + (CHOOSE n \in 0..9 : ToString(n) = text[1]))
  ELSE Parsed([num |-> acc], text)

RECURSIVE ParseValue(_)
RECURSIVE ParseMembers(_, _)
RECURSIVE ParseElements(_, _)
ParseValue(input) ==
  LET text == SkipSpace(input)
  IN IF Len(text) = 0 THEN UnexpectedEnd
     ELSE CASE text[1] = "\""    -> ParseString(Tail(text), <<>>)
            [] text[1] = "null"  -> Parsed(JsonNull, Tail(text))
            [] text[1] = "true"  -> Parsed([bool |-> TRUE], Tail(text))
            [] text[1] = "false" -> Parsed([bool |-> FALSE], Tail(text))
            [] IsDigit(text[1]) /\ text[1] # "0" -> ParseDigits(text, 0)
            [] IsNumeral(text[1])
                 -> Parsed([num |-> CHOOSE n \in 0..99 : ToString(n) = text[1]], Tail(text))
            [] text[1] = "{"
                 -> LET inner == SkipSpace(Tail(text))
                    IN IF Len(inner) > 0 /\ inner[1] = "}"
                       THEN Parsed(EmptyObject, Tail(inner))
                       ELSE ParseMembers(inner, <<>>)
            [] text[1] = "["
                 -> LET inner == SkipSpace(Tail(text))
                    IN IF Len(inner) > 0 /\ inner[1] = "]"
                       THEN Parsed([arr |-> <<>>], Tail(inner))
                       ELSE ParseElements(inner, <<>>)
            [] OTHER -> UnexpectedToken(text[1])

\* The members of an object after `{` or `,`; a repeated key keeps its first
\* position and its last value.
ParseMembers(input, acc) ==
  LET text == SkipSpace(input)
  IN IF Len(text) = 0 THEN UnexpectedEnd
     ELSE IF text[1] # "\"" THEN UnexpectedToken(text[1])
     ELSE LET k == ParseString(Tail(text), <<>>)
              afterKey == SkipSpace(k.rest)
          IN IF ~k.ok THEN k
             ELSE IF Len(afterKey) = 0 THEN UnexpectedEnd
             ELSE IF afterKey[1] # ":" THEN UnexpectedToken(afterKey[1])
             ELSE LET v == ParseValue(Tail(afterKey))
                      afterValue == SkipSpace(v.rest)
                      key == k.value.str
                      members ==
                        IF \E i \in 1..Len(acc) : acc[i][1] = key
                        THEN [i \in 1..Len(acc) |->
                                IF acc[i][1] = key THEN <<key, v.value>> ELSE acc[i]]
                        ELSE Append(acc, <<key, v.value>>)
                  IN IF ~v.ok THEN v
                     ELSE IF Len(afterValue) = 0 THEN UnexpectedEnd
                     ELSE IF afterValue[1] = "}"
                          THEN Parsed([pairs |-> members], Tail(afterValue))
                     ELSE IF afterValue[1] = ","
                          THEN ParseMembers(Tail(afterValue), members)
                     ELSE UnexpectedToken(afterValue[1])

\* The elements of an array after `[` or `,`.
ParseElements(input, acc) ==
  LET v == ParseValue(input)
      afterValue == SkipSpace(v.rest)
  IN IF ~v.ok THEN v
     ELSE IF Len(afterValue) = 0 THEN UnexpectedEnd
     ELSE IF afterValue[1] = "]"
          THEN Parsed([arr |-> Append(acc, v.value)], Tail(afterValue))
     ELSE IF afterValue[1] = ","
          THEN ParseElements(Tail(afterValue), Append(acc, v.value))
     ELSE UnexpectedToken(afterValue[1])

\* JSON.parse(text): one value, nothing but white space after it.
JSONparse(text) ==
  LET v == ParseValue(text)
      after == SkipSpace(v.rest)
  IN IF v.ok /\ Len(after) > 0 THEN UnexpectedToken(after[1]) ELSE v

\* decodeURIComponent(text).  A percent escape is one token; "%" alone and
\* "%zz" stand for the malformed escapes, which raise a URIError.
decodeURIComponent(text) ==
  IF \E i \in 1..Len(text) : text[i] \in {"%", "%zz"} THEN Thrown(<<"URI malformed">>)
  ELSE Parsed([str |-> [i \in 1..Len(text) |->
                          CASE text[i] = "%7B" -> "{"
                            [] text[i] = "%7D" -> "}"
                            [] text[i] = "%22" -> "\""
                            [] text[i] = "%3A" -> ":"
                            [] text[i] = "%5B" -> "["
                            [] text[i] = "%5D" -> "]"
                            [] OTHER -> text[i]]], <<>>)

\* Headers (constants.js).
Headers == [DatastarRequest |-> "datastar-request", SignalsQueryParam |-> "datastar"]

\* A request: its method, request.query[Headers.SignalsQueryParam],
\* request.body and request.headers[Headers.DatastarRequest], each undefined or
\* a value; a header value is a text.
Request(method, query, body, header) ==
  [method |-> method, query |-> query, body |-> body, header |-> header]

\* ReadSignalsResult.
Success(signals) == [success |-> TRUE, signals |-> Some(signals), error |-> Undefined]
Failure(message) == [success |-> FALSE, signals |-> Undefined, error |-> Some(message)]

\* The try block of readSignals: the result it returns, or the exception that
\* leaves it.
readSignalsTry(request) ==
  IF request.method = "GET"
  THEN LET querySignals == request.query
       IN IF ~Truthy(querySignals) THEN Parsed(Success(EmptyObject), <<>>)
          ELSE LET decoded == IF IsString(querySignals[1])
                              THEN decodeURIComponent(querySignals[1].str)
                              ELSE Parsed([str |-> JSONstringify(querySignals[1])], <<>>)
                   signals == JSONparse(decoded.value.str)
               IN IF ~decoded.ok THEN decoded
                  ELSE IF ~signals.ok THEN signals
                  ELSE Parsed(Success(signals.value), <<>>)
  ELSE LET body == request.body
       IN IF ~Truthy(body) THEN Parsed(Success(EmptyObject), <<>>)
          ELSE IF IsString(body[1])
               THEN LET signals == JSONparse(body[1].str)
                    IN IF ~signals.ok THEN signals ELSE Parsed(Success(signals.value), <<>>)
               ELSE Parsed(Success(body[1]), <<>>)

\* A faulty variant of readSignals without the catch block.
readSignalsWithoutCatch(request) ==
  LET t == readSignalsTry(request)
  IN IF t.ok THEN [rejected |-> FALSE, result |-> t.value]
     ELSE [rejected |-> TRUE, result |-> Failure(t.message)]

\* A faulty variant of readSignals that takes a GET request's body when the query
\* parameter is absent.
readSignalsFallingBack(request) ==
  LET t == IF request.method = "GET" /\ ~Truthy(request.query)
           THEN readSignalsTry([request EXCEPT !.method = "POST"])
           ELSE readSignalsTry(request)
  IN [rejected |-> FALSE, result |-> IF t.ok THEN t.value ELSE Failure(t.message)]

\* readSignals(request): how its promise settles, and with what.  Every exception
\* the parsers raise is an Error instance, so the message is error.message.
readSignals(request) ==
  LET t == readSignalsTry(request)
  IN [rejected |-> FALSE, result |-> IF t.ok THEN t.value ELSE Failure(t.message)]

\* A faulty variant of isDatastarRequest that accepts every header that is set.
isDatastarRequestLoose(request) == request.header # Undefined

\* isDatastarRequest(request)
isDatastarRequest(request) == request.header = Some(<<"true">>)

\* ------------------------------------------------------------------------
\* The test server (testserver.js)
\* ------------------------------------------------------------------------
\* The fields of an event as options: a string field is taken if truthy, a
\* boolean field if defined, retryDuration if defined and positive.
StringField(event, key) ==
  IF Truthy(Get(event, key)) THEN Some(Get(event, key)[1].str) ELSE Undefined

BooleanField(event, key) ==
  IF Get(event, key) # Undefined THEN Some(Get(event, key)[1].bool) ELSE Undefined

RetryField(event) ==
  LET rd == Get(event, <<"retryDuration">>)
  IN IF rd # Undefined /\ rd[1].num > 0 THEN Some(rd[1].num) ELSE Undefined

\* script.replace(/\\n/g, '\n'): a backslash followed by n becomes a line break.
RECURSIVE ReplaceEscapedNewlines(_)
ReplaceEscapedNewlines(text) ==
  IF Len(text) = 0 THEN <<>>
  ELSE IF Len(text) >= 2 /\ text[1] = "\\" /\ text[2] = "n"
       THEN <<"\n">> \o ReplaceEscapedNewlines(SubSeq(text, 3, Len(text)))
  ELSE <<text[1]>> \o ReplaceEscapedNewlines(Tail(text))

handlePatchElements(closed, event) ==
  LET options == [NoOptions EXCEPT !.selector = StringField(event, <<"selector">>),
                                   !.mode = StringField(event, <<"mode">>),
                                   !.useViewTransition =
                                      BooleanField(event, <<"useViewTransition">>),
                                   !.eventId = StringField(event, <<"eventId">>),
                                   !.retryDuration = RetryField(event)]
      elements == IF Truthy(Get(event, <<"elements">>))
                  THEN Get(event, <<"elements">>)[1].str ELSE <<>>
  IN patchElements(closed, elements, options)

handlePatchSignals(closed, event) ==
  LET options == [NoOptions EXCEPT !.onlyIfMissing = BooleanField(event, <<"onlyIfMissing">>),
                                   !.eventId = StringField(event, <<"eventId">>),
                                   !.retryDuration = RetryField(event)]
      raw == Get(event, <<"signals-raw">>)
      signals == Get(event, <<"signals">>)
      signalsData == IF Truthy(raw) THEN raw[1]
                     ELSE IF Truthy(signals)
                          THEN (IF IsString(signals[1]) THEN signals[1]
                                ELSE [str |-> JSONstringify(signals[1])])
                     ELSE EmptyObject
  IN patchSignals(closed, signalsData, options)

handleExecuteScript(closed, event) ==
  LET attributes == Get(event, <<"attributes">>)
      options == [NoOptions EXCEPT
                    !.autoRemove = BooleanField(event, <<"autoRemove">>),
                    !.attributes =
                       IF Truthy(attributes)
                       THEN Some([i \in 1..Len(attributes[1].pairs) |->
                                    <<attributes[1].pairs[i][1], attributes[1].pairs[i][2].str>>])
                       ELSE Undefined,
                    !.eventId = StringField(event, <<"eventId">>),
                    !.retryDuration = RetryField(event)]
      script == IF Truthy(Get(event, <<"script">>))
                THEN ReplaceEscapedNewlines(Get(event, <<"script">>)[1].str) ELSE <<>>
  IN executeScript(closed, script, options)

\* event.type as the switch sees it and as the template literal of the warning
\* prints it: a string, `undefined`, or a number, a boolean or null printed as
\* JSON prints them; none of the latter matches a case.
TypeOf(event) ==
  IF ~IsObject(event) \/ Get(event, <<"type">>) = Undefined THEN <<"undefined">>
  ELSE IF IsString(Get(event, <<"type">>)[1]) THEN Get(event, <<"type">>)[1].str
  ELSE JsonValue(Get(event, <<"type">>)[1])

\* A faulty variant of the event loop that returns at the first unknown type.
RECURSIVE processEventsStoppingAtUnknown(_, _, _)
processEventsStoppingAtUnknown(events, closed, done) ==
  IF Len(events) = 0 \/ closed THEN done
  ELSE LET event == events[1]
           type == TypeOf(event)
       IN IF type \notin {<<"patchElements">>, <<"patchSignals">>, <<"executeScript">>}
          THEN [done EXCEPT !.warnings = Append(@, <<"Unknown event type: ">> \o type)]
          ELSE LET r == CASE type = <<"patchElements">> -> handlePatchElements(closed, event)
                          [] type = <<"patchSignals">>  -> handlePatchSignals(closed, event)
                          [] OTHER                      -> handleExecuteScript(closed, event)
               IN processEventsStoppingAtUnknown(
                    Tail(events), closed,
                    [done EXCEPT !.frames = Append(@, r.writes)])

\* The callback given to reply.datastar: the loop over req.events.  A session
\* cannot be closed while the synchronous loop runs, so `closed` is the flag of
\* every iteration.  It yields, per recognised event, the chunks written, and the
\* warnings logged; reading the type of a null entry raises a TypeError.
RECURSIVE processEvents(_, _, _)
processEvents(events, closed, done) ==
  IF Len(events) = 0 THEN done
  ELSE IF closed
       THEN [done EXCEPT !.warnings =
               Append(@, <<"SSE connection closed, stopping event processing">>)]
  ELSE LET event == events[1]
           type == TypeOf(event)
       IN IF "null" \in DOMAIN event THEN [done EXCEPT !.raised = TRUE]
          ELSE IF type \notin {<<"patchElements">>, <<"patchSignals">>, <<"executeScript">>}
               THEN processEvents(
                      Tail(events), closed,
                      [done EXCEPT !.warnings = Append(@, <<"Unknown event type: ">> \o type)])
          ELSE LET r == CASE type = <<"patchElements">> -> handlePatchElements(closed, event)
                          [] type = <<"patchSignals">>  -> handlePatchSignals(closed, event)
                          [] OTHER                      -> handleExecuteScript(closed, event)
               IN processEvents(Tail(events), closed,
                                [done EXCEPT !.frames = Append(@, r.writes)])

NothingDone == [frames |-> <<>>, warnings |-> <<>>, raised |-> FALSE]

\* The chunks of the frames, each tagged with the number of its operation.
RECURSIVE Chunks(_, _)
Chunks(frames, n) ==
  IF Len(frames) = 0 THEN <<>>
  ELSE [i \in 1..Len(frames[1]) |-> [op |-> n, text |-> frames[1][i]]]
       \o Chunks(Tail(frames), n + 1)

\* A faulty variant of the validation of the /test handler: no parse message
\* after `Failed to read signals: `, and a server error for a missing array.
respondsWithoutMessage(snapshot) ==
  IF ~snapshot.success
  THEN [status |-> 400, error |-> <<"Failed to read signals: ">>]
  ELSE LET req == IF Truthy(snapshot.signals) THEN snapshot.signals[1] ELSE EmptyObject
           events == IF IsObject(req) THEN Get(req, <<"events">>) ELSE Undefined
       IN IF ~Truthy(events) \/ "arr" \notin DOMAIN events[1]
          THEN [status |-> 500, error |-> <<"Missing or invalid events array">>]
          ELSE [status |-> 0, error |-> <<>>]

\* The validation of the /test handler before it opens a stream: the JSON
\* response it sends (status 0: none, the stream is opened).
respondsWithoutStream(snapshot) ==
  IF ~snapshot.success
  THEN [status |-> 400, error |-> <<"Failed to read signals: ">> \o snapshot.error[1]]
  ELSE LET req == IF Truthy(snapshot.signals) THEN snapshot.signals[1] ELSE EmptyObject
           events == IF IsObject(req) THEN Get(req, <<"events">>) ELSE Undefined
       IN IF ~Truthy(events) \/ "arr" \notin DOMAIN events[1]
          THEN [status |-> 400, error |-> <<"Missing or invalid events array">>]
          ELSE [status |-> 0, error |-> <<>>]

\* ------------------------------------------------------------------------
\* The operations a holder of the session issues
\* ------------------------------------------------------------------------
OpSet ==
  { [name |-> "patchElements", a |-> <<"<div>hi</div>">>,
     o |-> [NoOptions EXCEPT !.selector = Some(<<"#c">>), !.mode = Some(PatchMode.Append)]],
    [name |-> "patchSignals", a |-> [pairs |-> << <<(<<"count">>), [num |-> 42]>> >>], o |-> NoOptions],
    [name |-> "executeScript", a |-> <<"alert(1)">>, o |-> NoOptions],
    [name |-> "removeElement", a |-> <<"#gone">>, o |-> NoOptions],
    [name |-> "removeElements", a |-> <<"#tmp">>, o |-> NoOptions],
    [name |-> "redirect", a |-> <<"/dashboard">>, o |-> NoOptions],
    [name |-> "replaceUrl", a |-> <<"/page">>, o |-> NoOptions],
    [name |-> "consoleLog", a |-> <<"h", "\"", "i">>, o |-> NoOptions],
    [name |-> "consoleError", a |-> <<"e", "\\">>, o |-> NoOptions],
    [name |-> "send", a |-> << <<"{}">> >>, o |-> NoOptions],
    [name |-> "sendEvent", a |-> [str |-> <<"hello">>],
     o |-> [NoOptions EXCEPT !.eventId = Some(<<"7">>)]] }

\* The arguments the encoder is examined on.  Texts are all token sequences up
\* to MaxTextLen over a small alphabet with the characters the encoder treats
\* specially; an option is absent, falsy or set.
Texts(alphabet) == UNION {[1..k -> alphabet] : k \in 0..MaxTextLen}

ElementsSet == Texts({"a", "\n"}) \cup {<<"<div>hi</div>">>}
ModeSet == {Undefined, Some(<<>>), Some(PatchMode.Outer), Some(PatchMode.Append)}
SelectorSet == {Undefined, Some(<<>>), Some(<<"#c">>)}
BoolOptionSet == {Undefined, Some(FALSE), Some(TRUE)}
EventIdSet == {Undefined, Some(<<>>), Some(<<"7">>)}
RetryDurationSet == {Undefined, Some(0), Some(500)}
SignalsSet ==
  {[str |-> t] : t \in Texts({"a", "\n"}) \cup {<<"{", "\"", "a", "\"", ":", "1", "}">>}}
  \cup {[pairs |-> p] : p \in
          {<<>>,
           << <<(<<"count">>), [num |-> 42]>> >>,
           << <<(<<"count">>), [num |-> 42]>>, <<(<<"message">>), [str |-> <<"hi">>]>> >>,
           << <<(<<"message">>), [str |-> <<"hi">>]>>, <<(<<"count">>), [num |-> 42]>> >>,
           << <<(<<"note">>), [str |-> <<"a", "\"", "\\", "\n">>]>> >>}}
ScriptSet == Texts({"a", "\n"}) \cup {<<"alert(1)">>}
AttributesSet ==
  {Undefined, Some(<<>>),
   Some(<< <<(<<"type">>), <<"module">>>> >>),
   Some(<< <<(<<"type">>), <<"module">>>>, <<(<<"title">>), <<"a", "\"", "<">>>> >>),
   Some(<< <<(<<"title">>), <<"a", "\"", "<">>>>, <<(<<"type">>), <<"module">>>> >>)}
RemoveSelectorSet == {<<>>, <<"#gone">>, <<"#a", ",", ".b">>}
MessageSet == Texts({"a", "\\", "\"", "\n"})

WithHeaders(o, eventId, retryDuration) ==
  [o EXCEPT !.eventId = eventId, !.retryDuration = retryDuration]

EncoderOps ==
  {[name |-> "patchElements", a |-> e,
    o |-> WithHeaders([NoOptions EXCEPT !.mode = m, !.selector = s,
                                        !.useViewTransition = v], id, rd)] :
      e \in ElementsSet, m \in ModeSet, s \in SelectorSet, v \in BoolOptionSet,
      id \in EventIdSet, rd \in RetryDurationSet}
  \cup
  {[name |-> "patchSignals", a |-> sig,
    o |-> WithHeaders([NoOptions EXCEPT !.onlyIfMissing = v], id, rd)] :
      sig \in SignalsSet, v \in BoolOptionSet, id \in EventIdSet, rd \in RetryDurationSet}
  \cup
  {[name |-> "executeScript", a |-> script,
    o |-> WithHeaders([NoOptions EXCEPT !.attributes = at, !.autoRemove = v], id, rd)] :
      script \in ScriptSet, at \in AttributesSet, v \in BoolOptionSet,
      id \in EventIdSet, rd \in RetryDurationSet}
  \cup
  {[name |-> n, a |-> sel, o |-> WithHeaders(NoOptions, id, rd)] :
      n \in {"removeElement", "removeElements"}, sel \in RemoveSelectorSet,
      id \in EventIdSet, rd \in RetryDurationSet}
  \cup
  {[name |-> n, a |-> msg, o |-> WithHeaders(NoOptions, id, rd)] :
      n \in {"consoleLog", "consoleError"}, msg \in MessageSet,
      id \in EventIdSet, rd \in RetryDurationSet}

\* The requests the Signal Reader is examined on.  A query parameter is absent,
\* a string (URL-encoded or not, well formed or not) or, when repeated, an array
\* of strings; a body is absent, a string, or the value a content type parser
\* made of it.
SignalsX1 == <<"{", "\"", "x", "\"", ":", "1", "}">>
JsonTextSet == Texts({"{", "}", "\"", "1"})
               \cup {SignalsX1, <<"null">>, <<"[", "1", "]">>, <<" ", "{", "}", "\n">>,
                     <<"{", "\"", "x", "\"", ":">>}
QueryTextSet == Texts({"%7B", "%7D", "%", "1"})
                \cup {SignalsX1, <<"null">>, <<"%zz">>,
                      <<"%7B", "%22", "x", "%22", "%3A", "1", "%7D">>}
QuerySet == {Undefined} \cup {Some([str |-> t]) : t \in QueryTextSet}
            \cup {Some([arr |-> <<[str |-> <<"1">>], [str |-> <<"2">>]>>])}
BodySet == {Undefined} \cup {Some([str |-> t]) : t \in JsonTextSet}
           \cup {Some(v) : v \in {EmptyObject, [pairs |-> << <<(<<"x">>), [num |-> 1]>> >>],
                                  [arr |-> <<[num |-> 1]>>], JsonNull, [num |-> 0],
                                  [num |-> 5], [bool |-> FALSE], [bool |-> TRUE]}}
HeaderSet == {Undefined} \cup {Some(t) : t \in {<<"true">>, <<"TRUE">>, <<"1">>, <<>>, <<"false">>,
                                                <<"true", ", ", "true">>}}
FewQueries == {Undefined, Some([str |-> SignalsX1]), Some([str |-> <<"%">>])}
FewBodies == {Undefined, Some([str |-> SignalsX1]), Some([str |-> <<"{">>])}

RequestSet ==
  {Request("GET", q, b, Some(<<"true">>)) : q \in QuerySet, b \in FewBodies}
  \cup {Request(m, q, b, Undefined) : m \in {"POST", "DELETE"}, q \in FewQueries, b \in BodySet}
  \cup {Request(m, Undefined, Undefined, h) : m \in {"GET", "POST"}, h \in HeaderSet}

\* The requests the test server is examined on: bodies with an events array of
\* up to MaxEvents events, recognised and not, and bodies without one.
Field(key, value) == <<(<<key>>), value>>
EventPool ==
  { [pairs |-> <<Field("type", [str |-> <<"patchElements">>]),
                 Field("elements", [str |-> <<"<div>1</div>">>]),
                 Field("selector", [str |-> <<"#c">>]),
                 Field("mode", [str |-> <<"append">>]),
                 Field("eventId", [str |-> <<"7">>]),
                 Field("retryDuration", [num |-> 0])>>],
    [pairs |-> <<Field("type", [str |-> <<"patchElements">>]),
                 Field("elements", [str |-> <<"<p>2</p>">>])>>],
    [pairs |-> <<Field("type", [str |-> <<"patchSignals">>]),
                 Field("signals", [pairs |-> <<Field("x", [num |-> 1])>>]),
                 Field("onlyIfMissing", [bool |-> TRUE])>>],
    [pairs |-> <<Field("type", [str |-> <<"executeScript">>]),
                 Field("script", [str |-> <<"a", "\\", "n", "b">>]),
                 Field("autoRemove", [bool |-> FALSE])>>],
    [pairs |-> <<Field("type", [str |-> <<"unknown">>])>>],
    [pairs |-> <<Field("type", [num |-> 5])>>],
    EmptyObject }

EventArrays == UNION {[1..k -> EventPool] : k \in 0..MaxEvents}

BodiesWithoutEvents ==
  {Undefined, Some([str |-> <<"{">>]), Some([str |-> <<"{", "\"", "events", "\"", ":">>]),
   Some([str |-> <<"null">>]), Some([str |-> <<"{", "}">>]), Some(EmptyObject),
   Some([num |-> 5]), Some([arr |-> <<EmptyObject>>]),
   Some([pairs |-> <<Field("events", [num |-> 5])>>]),
   Some([pairs |-> <<Field("events", EmptyObject)>>]),
   Some([pairs |-> <<Field("events", [str |-> <<"x">>])>>]),
   Some([pairs |-> <<Field("event", [arr |-> <<>>])>>])}

TestRequestSet ==
  {Request("POST", Undefined, Some([pairs |-> <<Field("events", [arr |-> a])>>]), Undefined) :
     a \in EventArrays}
  \cup {Request("POST", Undefined, b, Undefined) : b \in BodiesWithoutEvents}
  \cup {Request("POST", Undefined,
                Some([str |-> <<"{", "\"", "events", "\"", ":", "[", "{", "\"", "type", "\"",
                               ":", "\"", "unknown", "\"", "}", "]", "}">>]), Undefined)}

\* The operations of the README's examples.
LifecycleOps == {op \in OpSet : op.name \in {"patchElements", "patchSignals", "executeScript"}}

\* sse.<name>(a, o) on a session whose _isClosed flag is `closed`.
Invoke(closed, op) ==
  CASE op.name = "patchElements"  -> patchElements(closed, op.a, op.o)
    [] op.name = "patchSignals"   -> patchSignals(closed, op.a, op.o)
    [] op.name = "executeScript"  -> executeScript(closed, op.a, op.o)
    [] op.name = "removeElement"  -> removeElement(closed, op.a, op.o)
    [] op.name = "removeElements" -> removeElements(closed, op.a, op.o)
    [] op.name = "redirect"       -> redirect(closed, op.a, op.o)
    [] op.name = "replaceUrl"     -> replaceUrl(closed, op.a, op.o)
    [] op.name = "consoleLog"     -> consoleLog(closed, op.a, op.o)
    [] op.name = "consoleError"   -> consoleError(closed, op.a, op.o)
    [] op.name = "send"           -> send(closed, <<"connected">>, op.a, op.o)
    [] op.name = "sendEvent"      -> sendEvent(closed, <<"connected">>, op.a, op.o)

\* ------------------------------------------------------------------------
\* State
\* ------------------------------------------------------------------------
VARIABLES
  inbound,       \* the request: [request, snapshot, marker], each undefined until
                 \* the request was received, readSignals has settled,
                 \* isDatastarRequest has returned
  http,          \* the test server: the status and error of its JSON response
                 \* (status 0: none sent), and the warnings it logged
  runner,        \* the test runner and the processes it spawned
  refusedCalls,  \* calls of reply.datastar / reply.datastarStream that raised
  pluginOptions, \* the options the plugin was registered with
  call,          \* the one operation whose encoding is examined, once applied
  pc,            \* "idle": no stream opened on the reply yet; "callback": the callback
                 \* of reply.datastar runs; "awaited": it has terminated and the
                 \* catch/finally of reply.datastar is due; "settled": the promise of
                 \* reply.datastar has settled; "stream": reply.datastarStream returned
  streamOptions, \* the streamOptions of the call
  async,         \* whether the callback returned a promise (it suspends between steps)
  outcome,       \* how the callback terminated
  isClosed,      \* ServerSentEventGenerator._isClosed
  headersSent,   \* reply.raw: writeHead was called
  writes,        \* reply.raw: the chunks written, [op, text]; op 0 is the preamble
  endCalls,      \* reply.raw: the number of end() calls
  closeEmitted,  \* reply.raw: 'close' was emitted
  closeListeners,\* reply.raw: the number of 'close' listeners the plugin registered
  result,        \* the promise of reply.datastar: "pending", "resolved", "rejected"
  opLog,         \* per operation issued: whether close() had been called before it,
                 \* and where the manager was (pc)
  raisedCount,   \* exceptions raised by operations and close() calls
  closeCalls,    \* close() calls made by the holder of the session
  managerCloses, \* close() calls made by reply.datastar
  onErrorLog,    \* the onError calls: the value passed and the session's state then
  onAbortCalls   \* the number of onAbort calls

vars == <<inbound, http, runner, refusedCalls, pluginOptions, call, pc, streamOptions, async, outcome, isClosed, headersSent, writes, endCalls,
          closeEmitted, closeListeners, result, opLog, raisedCount, closeCalls,
          managerCloses, onErrorLog, onAbortCalls>>

created == pc # "idle"

\* app.register(datastar, options), and a reply no stream was opened on.
Register(options) ==
  /\ inbound = [request |-> Undefined, snapshot |-> Undefined, marker |-> Undefined]
  /\ http = [status |-> 0, error |-> <<>>, warnings |-> <<>>]
  /\ runner = [pc |-> "idle", server |-> "none", reported |-> FALSE, stdout |-> 0,
               stderr |-> 0, tests |-> "none", code |-> 0, exit |-> Undefined]
  /\ refusedCalls = 0
  /\ pluginOptions = options
  /\ call = Undefined
  /\ pc = "idle"
  /\ streamOptions = NoStreamOptions
  /\ async = FALSE
  /\ outcome = Returned
  /\ isClosed = FALSE
  /\ headersSent = FALSE
  /\ writes = <<>>
  /\ endCalls = 0
  /\ closeEmitted = FALSE
  /\ closeListeners = 0
  /\ result = "pending"
  /\ opLog = <<>>
  /\ raisedCount = 0
  /\ closeCalls = 0
  /\ managerCloses = 0
  /\ onErrorLog = <<>>
  /\ onAbortCalls = 0

Init == Register(PluginOptions)

\* initializeSSEStream(reply, defaultRetryDuration).  reply.raw.writeHead raises
\* once the headers have been sent, so a reply gets one session.
OpenStream ==
  /\ ~writeHead(headersSent).raised
  /\ headersSent' = writeHead(headersSent).headersSent
  /\ writes' = Append(writes, [op |-> 0,
                               text |-> initializeSSEStream(defaultRetryDuration(pluginOptions))])
  /\ isClosed' = FALSE

\* reply.datastar(callback, options) up to the call of the callback.
Datastar(o, isAsync) ==
  /\ pc = "idle"
  /\ OpenStream
  /\ pc' = "callback"
  /\ streamOptions' = o
  /\ async' = isAsync
  /\ UNCHANGED <<inbound, http, runner, refusedCalls, pluginOptions, call, outcome, endCalls, closeEmitted, closeListeners, result, opLog,
                 raisedCount, closeCalls, managerCloses, onErrorLog, onAbortCalls>>

\* reply.datastarStream(options).
DatastarStream(o) ==
  /\ pc = "idle"
  /\ OpenStream
  /\ closeListeners' = closeListeners + 1
  /\ pc' = "stream"
  /\ streamOptions' = o
  /\ UNCHANGED <<inbound, http, runner, refusedCalls, pluginOptions, call, async, outcome, endCalls, closeEmitted, result, opLog, raisedCount,
                 closeCalls, managerCloses, onErrorLog, onAbortCalls>>

\* sse.<name>(a, o) applied to the session.
Apply(op) ==
  /\ created
  /\ Len(opLog) < MaxOps
  /\ LET r == Invoke(isClosed, op)
         n == Len(opLog) + 1
     IN /\ writes' = writes \o [i \in 1..Len(r.writes) |-> [op |-> n, text |-> r.writes[i]]]
        /\ raisedCount' = raisedCount + (IF r.raised THEN 1 ELSE 0)
  /\ opLog' = Append(opLog, [afterClose |-> closeCalls + managerCloses > 0, pc |-> pc])
  /\ UNCHANGED <<inbound, http, runner, refusedCalls, pluginOptions, pc, streamOptions, async, outcome, isClosed, headersSent,
                 endCalls, closeEmitted, closeListeners, result, closeCalls,
                 managerCloses, onErrorLog, onAbortCalls>>

\* The holder of the session issues one operation.
Operation(op) == Apply(op) /\ UNCHANGED call

\* The holder of the session issues the one operation whose encoding is examined.
Encode(op) ==
  /\ call = Undefined
  /\ Apply(op)
  /\ call' = Some(op)

\* The holder of the session calls sse.close().
Close ==
  /\ created
  /\ closeCalls < MaxCloses
  /\ LET r == close(isClosed)
     IN /\ isClosed' = r.isClosed
        /\ endCalls' = endCalls + r.ends
        /\ raisedCount' = raisedCount + (IF r.raised THEN 1 ELSE 0)
  /\ closeCalls' = closeCalls + 1
  /\ UNCHANGED <<inbound, http, runner, refusedCalls, pluginOptions, call, pc, streamOptions, async, outcome, headersSent, writes, closeEmitted,
                 closeListeners, result, opLog, managerCloses, onErrorLog, onAbortCalls>>

\* The callback of reply.datastar terminates.
CallbackEnd(out) ==
  /\ pc = "callback"
  /\ pc' = "awaited"
  /\ outcome' = out
  /\ UNCHANGED <<inbound, http, runner, refusedCalls, pluginOptions, call, streamOptions, async, isClosed, headersSent, writes, endCalls,
                 closeEmitted, closeListeners, result, opLog, raisedCount, closeCalls,
                 managerCloses, onErrorLog, onAbortCalls>>

\* The calls of the catch and finally blocks, applied in order to
\* st = [isClosed, endCalls, managerCloses, onErrorLog].
RECURSIVE RunCalls(_, _, _)
RunCalls(calls, st, value) ==
  IF Len(calls) = 0 THEN st
  ELSE LET next ==
             IF Head(calls) = "onError"
             THEN [st EXCEPT !.onErrorLog =
                      Append(@, [value |-> value, isClosed |-> st.isClosed,
                                 managerCloses |-> st.managerCloses])]
             ELSE LET r == close(st.isClosed)
                  IN [st EXCEPT !.isClosed = r.isClosed,
                                !.endCalls = @ + r.ends,
                                !.managerCloses = @ + 1]
       IN RunCalls(Tail(calls), next, value)

\* A faulty variant of the await that does not wait for the callback's promise.
awaitCallbackNotAwaited(position) == position \in {"callback", "awaited"}

\* await callback(sse): the continuation runs once the callback has terminated
\* (returned, raised, or its promise settled).
awaitCallback(position) == position = "awaited"

\* reply.datastar after the await: catch, finally, and the promise settles.
ManagerFinish ==
  /\ awaitCallback(pc)
  /\ LET t == datastarCatchFinally(outcome, streamOptions)
         st == RunCalls(t.calls,
                        [isClosed |-> isClosed, endCalls |-> endCalls,
                         managerCloses |-> managerCloses, onErrorLog |-> onErrorLog],
                        outcome.value)
     IN /\ isClosed' = st.isClosed
        /\ endCalls' = st.endCalls
        /\ managerCloses' = st.managerCloses
        /\ onErrorLog' = st.onErrorLog
        /\ result' = IF t.rejects THEN "rejected" ELSE "resolved"
  /\ pc' = "settled"
  /\ UNCHANGED <<inbound, http, runner, refusedCalls, pluginOptions, call, streamOptions, async, outcome, headersSent, writes, closeEmitted,
                 closeListeners, opLog, raisedCount, closeCalls, onAbortCalls>>

\* reply.raw emits 'close' (the client disconnected, or the response ended): the
\* registered listeners run.  No event is delivered while synchronous code or the
\* continuation of an await is due.
RawClose ==
  /\ ~closeEmitted
  /\ ~(pc = "callback" /\ ~async)
  /\ pc # "awaited"
  /\ closeEmitted' = TRUE
  /\ onAbortCalls' = onAbortCalls + closeListeners * closeListener(streamOptions)
  /\ UNCHANGED <<inbound, http, runner, refusedCalls, pluginOptions, call, pc, streamOptions, async, outcome, isClosed, headersSent, writes,
                 endCalls, closeListeners, result, opLog, raisedCount, closeCalls,
                 managerCloses, onErrorLog>>

\* A further call of reply.datastar or reply.datastarStream on the reply:
\* initializeSSEStream raises at writeHead, before the preamble is written and
\* before a generator is constructed (reply.datastar rejects, reply.datastarStream
\* throws); were it not to raise, a new open session would write the preamble.
RepeatedCall ==
  /\ created
  /\ refusedCalls < MaxCalls
  /\ IF writeHead(headersSent).raised
     THEN /\ refusedCalls' = refusedCalls + 1
          /\ UNCHANGED <<headersSent, writes, isClosed>>
     ELSE /\ headersSent' = writeHead(headersSent).headersSent
          /\ writes' = Append(writes,
                              [op |-> 0,
                               text |-> initializeSSEStream(defaultRetryDuration(pluginOptions))])
          /\ isClosed' = FALSE
          /\ UNCHANGED refusedCalls
  /\ UNCHANGED <<inbound, http, runner, pluginOptions, call, pc, streamOptions, async, outcome,
                 endCalls, closeEmitted, closeListeners, result, opLog, raisedCount,
                 closeCalls, managerCloses, onErrorLog, onAbortCalls>>

\* A request arrives.
Receive(r) ==
  /\ inbound.request = Undefined
  /\ inbound' = [inbound EXCEPT !.request = Some(r)]
  /\ UNCHANGED <<http, runner, refusedCalls, pluginOptions, call, pc, streamOptions, async,
                 outcome, isClosed, headersSent, writes, endCalls, closeEmitted,
                 closeListeners, result, opLog, raisedCount, closeCalls, managerCloses,
                 onErrorLog, onAbortCalls>>

\* await request.readSignals()
ReadSignals ==
  /\ inbound.request # Undefined
  /\ inbound.snapshot = Undefined
  /\ inbound' = [inbound EXCEPT !.snapshot = Some(readSignals(inbound.request[1]))]
  /\ UNCHANGED <<http, runner, refusedCalls, pluginOptions, call, pc, streamOptions, async,
                 outcome, isClosed, headersSent, writes, endCalls, closeEmitted,
                 closeListeners, result, opLog, raisedCount, closeCalls, managerCloses,
                 onErrorLog, onAbortCalls>>

\* request.isDatastarRequest()
IsDatastarRequest ==
  /\ inbound.request # Undefined
  /\ inbound.marker = Undefined
  /\ inbound' = [inbound EXCEPT !.marker = Some(isDatastarRequest(inbound.request[1]))]
  /\ UNCHANGED <<http, runner, refusedCalls, pluginOptions, call, pc, streamOptions, async,
                 outcome, isClosed, headersSent, writes, endCalls, closeEmitted,
                 closeListeners, result, opLog, raisedCount, closeCalls, managerCloses,
                 onErrorLog, onAbortCalls>>

\* The /test handler after `result = await request.readSignals()`, s being the
\* promise's outcome: the validation, and, for a valid request, reply.datastar
\* with the loop over the events and the automatic close.
Respond(s) ==
  /\ LET early == IF s.rejected
                  THEN [status |-> 500, error |-> s.result.error[1]]
                  ELSE respondsWithoutStream(s.result)
     IN /\ inbound' = [inbound EXCEPT !.snapshot = Some(s)]
        /\ IF early.status # 0
           THEN /\ http' = [http EXCEPT !.status = early.status, !.error = early.error]
                /\ UNCHANGED <<pc, streamOptions, async, outcome, isClosed, headersSent,
                               writes, endCalls, result, opLog, managerCloses, onErrorLog>>
           ELSE LET done == processEvents(Get(s.result.signals[1], <<"events">>)[1].arr,
                                          FALSE, NothingDone)
                    out == IF done.raised
                           THEN [raised |-> TRUE, value |-> "new TypeError()", isError |-> TRUE]
                           ELSE Returned
                    t == datastarCatchFinally(out, NoStreamOptions)
                    st == RunCalls(t.calls,
                                   [isClosed |-> FALSE, endCalls |-> endCalls,
                                    managerCloses |-> managerCloses,
                                    onErrorLog |-> onErrorLog], out.value)
                IN /\ headersSent' = TRUE
                   /\ writes' = Append(writes,
                                       [op |-> 0,
                                        text |-> initializeSSEStream(
                                                   defaultRetryDuration(pluginOptions))])
                                \o Chunks(done.frames, 1)
                   /\ opLog' = [i \in 1..Len(done.frames) |->
                                  [afterClose |-> FALSE, pc |-> "callback"]]
                   /\ http' = [http EXCEPT !.warnings = done.warnings,
                                           !.status = IF t.rejects THEN 500 ELSE 0]
                   /\ isClosed' = st.isClosed
                   /\ endCalls' = st.endCalls
                   /\ managerCloses' = st.managerCloses
                   /\ onErrorLog' = st.onErrorLog
                   /\ result' = IF t.rejects THEN "rejected" ELSE "resolved"
                   /\ outcome' = out
                   /\ streamOptions' = NoStreamOptions
                   /\ async' = FALSE
                   /\ pc' = "settled"
  /\ UNCHANGED <<runner, refusedCalls, pluginOptions, call, closeEmitted, closeListeners,
                 raisedCount, closeCalls, onAbortCalls>>

\* app.post('/test', ...): the whole handler.  Its callback is synchronous and
\* no I/O event is delivered between the awaits of settled promises, so it runs
\* as one step.
TestHandler ==
  /\ inbound.request # Undefined
  /\ inbound.snapshot = Undefined
  /\ http.status = 0
  /\ pc = "idle"
  /\ Respond(readSignals(inbound.request[1]))

\* ------------------------------------------------------------------------
\* The test runner (runTests)
\* ------------------------------------------------------------------------
\* Everything but the runner: the runner and the processes it spawns share no
\* state with a reply.
replyVars == <<inbound, http, refusedCalls, pluginOptions, call, pc, streamOptions, async,
               outcome, isClosed, headersSent, writes, endCalls, closeEmitted,
               closeListeners, result, opLog, raisedCount, closeCalls, managerCloses,
               onErrorLog, onAbortCalls>>

\* spawn('node', ['testserver.js']) and the wait for its startup begins; a
\* failed spawn leaves no process and emits 'error'.
SpawnServer(spawned) ==
  /\ runner.pc = "idle"
  /\ runner' = [runner EXCEPT !.pc = "startup",
                              !.server = IF spawned THEN "running" ELSE "failed"]
  /\ UNCHANGED replyVars

\* server.on('error'): the timeout is cleared and the wait rejects.
ServerError ==
  /\ runner.pc = "startup" /\ runner.server = "failed"
  /\ runner' = [runner EXCEPT !.pc = "rejected"]
  /\ UNCHANGED replyVars

\* server.stdout.on('data'): a chunk with `Test server starting` in it resolves
\* the wait for startup (a later resolve has no effect).
ServerStdout(starting) ==
  /\ runner.server = "running" /\ runner.exit = Undefined
  /\ runner.stdout < MaxOutput
  /\ runner' = [runner EXCEPT !.stdout = @ + 1,
                              !.reported = @ \/ starting,
                              !.pc = IF starting /\ @ = "startup" THEN "delay" ELSE @]
  /\ UNCHANGED replyVars

\* server.stderr.on('data'): printed, nothing else.
ServerStderr ==
  /\ runner.server = "running" /\ runner.exit = Undefined
  /\ runner.stderr < MaxOutput
  /\ runner' = [runner EXCEPT !.stderr = @ + 1]
  /\ UNCHANGED replyVars

\* The 5000 ms timer: reject(new Error('Server startup timeout')).
StartupTimeout ==
  /\ runner.pc = "startup"
  /\ runner' = [runner EXCEPT !.pc = "rejected"]
  /\ UNCHANGED replyVars

\* After the 500 ms pause: spawn('node', ['test-request.js']); a failed spawn
\* emits 'error', which rejects.
SpawnTests(spawned) ==
  /\ runner.pc = "delay"
  /\ runner' = [runner EXCEPT !.pc = IF spawned THEN "tests" ELSE "rejected",
                              !.tests = IF spawned THEN "running" ELSE "failed"]
  /\ UNCHANGED replyVars

\* testProcess.on('close', code): code 0 resolves, and the continuation calls
\* server.kill() and starts to wait for the server's 'close'; another code
\* rejects.
TestsClose(code) ==
  /\ runner.pc = "tests" /\ runner.tests = "running"
  /\ runner' = [runner EXCEPT !.tests = "exited",
                              !.code = code,
                              !.pc = IF code = 0 THEN "shutdown" ELSE "rejected",
                              !.server = IF code = 0 /\ @ = "running" THEN "killed" ELSE @]
  /\ UNCHANGED replyVars

\* The server process ends by itself (the port is taken, a crash).
ServerExit ==
  /\ runner.server = "running" /\ runner.exit = Undefined
  /\ runner' = [runner EXCEPT !.server = "exited"]
  /\ UNCHANGED replyVars

\* The killed server terminates: server.on('close') resolves the last wait.
ServerClose ==
  /\ runner.server = "killed"
  /\ runner' = [runner EXCEPT !.server = "exited",
                              !.pc = IF @ = "shutdown" THEN "resolved" ELSE @]
  /\ UNCHANGED replyVars

\* runTests().then(() => process.exit(0)).catch(() => process.exit(1)); when
\* the server had ended before server.on('close') was registered nothing is
\* left to wait for and the process ends with code 0.
ProcessExit ==
  /\ runner.exit = Undefined
  /\ \/ runner.pc = "resolved" /\ runner' = [runner EXCEPT !.pc = "exited", !.exit = Some(0)]
     \/ runner.pc = "rejected" /\ runner' = [runner EXCEPT !.pc = "exited", !.exit = Some(1)]
     \/ /\ runner.pc = "shutdown" /\ runner.server = "exited"
        /\ runner' = [runner EXCEPT !.pc = "exited", !.exit = Some(0)]
  /\ UNCHANGED replyVars

\* The lifecycle: every choice of stream options, the operations of the README.
Next ==
  \/ \E o \in StreamOptionsSet, isAsync \in BOOLEAN : Datastar(o, isAsync)
  \/ \E o \in StreamOptionsSet : DatastarStream(o)
  \/ \E op \in LifecycleOps : Operation(op)
  \/ Close
  \/ \E out \in Outcomes : CallbackEnd(out)
  \/ ManagerFinish
  \/ RawClose

Spec == Init /\ [][Next]_vars

\* The session: every operation of the generator, the stream opened with `{}`.
SessionNext ==
  \/ \E isAsync \in BOOLEAN : Datastar(NoStreamOptions, isAsync)
  \/ DatastarStream(NoStreamOptions)
  \/ \E op \in OpSet : Operation(op)
  \/ Close
  \/ \E out \in Outcomes : CallbackEnd(out)
  \/ ManagerFinish
  \/ RawClose

SessionSpec == Init /\ [][SessionNext]_vars

\* The preamble: every registration of the plugin, the stream opened with `{}`,
\* the operations of the README.
PreambleInit == \E options \in PluginOptionsSet : Register(options)

PreambleNext ==
  \/ \E isAsync \in BOOLEAN : Datastar(NoStreamOptions, isAsync)
  \/ DatastarStream(NoStreamOptions)
  \/ \E op \in LifecycleOps : Operation(op)
  \/ Close
  \/ \E out \in Outcomes : CallbackEnd(out)
  \/ ManagerFinish
  \/ RawClose

PreambleSpec == PreambleInit /\ [][PreambleNext]_vars

\* The encoder: one operation, of any kind and with any arguments, on an open
\* session.
EncoderNext ==
  \/ DatastarStream(NoStreamOptions)
  \/ \E op \in EncoderOps : Encode(op)

EncoderSpec == Init /\ [][EncoderNext]_vars

\* The request decorators: one request, read and inspected in either order; the
\* handler may have opened a stream.
SignalsNext ==
  \/ \E r \in RequestSet : Receive(r)
  \/ ReadSignals
  \/ IsDatastarRequest
  \/ DatastarStream(NoStreamOptions)

SignalsSpec == Init /\ [][SignalsNext]_vars

\* The reply: every sequence of reply.datastar / reply.datastarStream calls, with
\* or without keepAlive, and of operations on the session.
ReplyOptionsSet == {o \in StreamOptionsSet : o.onError = "none" /\ ~o.onAbort}

ReplyNext ==
  \/ \E o \in ReplyOptionsSet, isAsync \in BOOLEAN : Datastar(o, isAsync)
  \/ \E o \in ReplyOptionsSet : DatastarStream(o)
  \/ RepeatedCall
  \/ \E op \in LifecycleOps : Operation(op)
  \/ Close
  \/ \E out \in Outcomes : CallbackEnd(out)
  \/ ManagerFinish
  \/ RawClose

ReplySpec == Init /\ [][ReplyNext]_vars

\* The test runner: one run of `npm test`.
RunnerNext ==
  \/ \E spawned \in BOOLEAN : SpawnServer(spawned)
  \/ ServerError
  \/ \E starting \in BOOLEAN : ServerStdout(starting)
  \/ ServerStderr
  \/ StartupTimeout
  \/ \E spawned \in BOOLEAN : SpawnTests(spawned)
  \/ \E code \in 0..2 : TestsClose(code)
  \/ ServerExit
  \/ ServerClose
  \/ ProcessExit

RunnerSpec == Init /\ [][RunnerNext]_vars

\* The test server: one request to POST /test.
TestServerNext ==
  \/ \E r \in TestRequestSet : Receive(r)
  \/ TestHandler
  \/ RawClose

TestServerSpec == Init /\ [][TestServerNext]_vars

\* ------------------------------------------------------------------------
\* Claims
\* ------------------------------------------------------------------------
closeCalled == closeCalls + managerCloses > 0

\* C1: an operation issued after close() has been called writes nothing to the
\* transport and raises nothing, and no chunk of a dropped operation ever
\* reaches the transport later.
C1_WriteAfterCloseIsNoOp ==
  /\ [][(Len(opLog') = Len(opLog) + 1 /\ closeCalled)
          => (writes' = writes /\ raisedCount' = raisedCount)]_vars
  /\ [](\A i \in 1..Len(writes) : writes[i].op # 0 => ~opLog[writes[i].op].afterClose)

C1_Witness ==
  /\ Len(opLog) = 2 /\ ~opLog[1].afterClose /\ opLog[2].afterClose
  /\ Len(writes) = 2 /\ isClosed

\* C2: over any run, reply.raw.end() is called at most once, exactly once if
\* close() was called at all (by the holder, by the manager, or by both), and no
\* close() raises.
C2_CloseIdempotent ==
  /\ endCalls = (IF closeCalled THEN 1 ELSE 0)
  /\ raisedCount = 0

C2_Witness ==
  /\ pc = "settled" /\ opLog # <<>> /\ closeCalls = 2 /\ managerCloses = 1 /\ endCalls = 1

\* C3: when reply.datastar settles and keepAlive was not set, the session is
\* closed and end() was called, however the callback terminated.
C3_ManagedClosesOnEveryExit ==
  (pc = "settled" /\ ~streamOptions.keepAlive) => (isClosed /\ endCalls = 1)

C3_Witness ==
  /\ pc = "settled" /\ ~streamOptions.keepAlive /\ outcome.raised
  /\ closeCalls = 0 /\ managerCloses = 1 /\ isClosed /\ endCalls = 1

\* C4 (as claimed): when the transport reports closure while a session exists,
\* the session is closed afterwards (isClosed reads true).
C4_TransportClosureClosesSession ==
  [][(created /\ ~closeEmitted /\ closeEmitted') => isClosed']_vars

\* C5: with keepAlive the manager never calls close(): once reply.datastar has
\* settled the session is closed only if its holder closed it, and while it is
\* open every operation is still written.
C5_KeepAliveSuppressesClose ==
  /\ []((pc = "settled" /\ streamOptions.keepAlive)
          => (managerCloses = 0 /\ (isClosed <=> closeCalls > 0)
              /\ endCalls = (IF closeCalls > 0 THEN 1 ELSE 0)))
  /\ [][(pc = "settled" /\ streamOptions.keepAlive /\ closeCalls = 0
         /\ Len(opLog') = Len(opLog) + 1)
          => Len(writes') = Len(writes) + 1]_vars

C5_Witness ==
  /\ pc = "settled" /\ streamOptions.keepAlive /\ outcome.raised /\ ~isClosed
  /\ opLog # <<>> /\ opLog[Len(opLog)].pc = "settled"
  /\ writes[Len(writes)].op = Len(opLog)

\* C6 (as claimed): with onError configured, onError is called exactly once with
\* the raised value, before the manager closes the session, whenever the
\* callback raised (any value), and never otherwise.
C6_OnErrorForAnyRaisedValue ==
  (pc = "settled" /\ streamOptions.onError # "none")
    => IF outcome.raised
       THEN /\ Len(onErrorLog) = 1
            /\ onErrorLog[1].value = outcome.value
            /\ onErrorLog[1].managerCloses = 0
       ELSE onErrorLog = <<>>

\* C6 (amended): with onError configured, onError is called exactly once with the
\* raised value, before the manager's close, whenever the callback raised an
\* Error instance; it is not called for another raised value, nor when the
\* callback did not raise, nor before reply.datastar gets to its catch block.
C6_OnErrorForErrorInstances ==
  /\ pc # "settled" => onErrorLog = <<>>
  /\ (pc = "settled")
       => IF outcome.raised /\ outcome.isError /\ streamOptions.onError # "none"
          THEN /\ Len(onErrorLog) = 1
               /\ onErrorLog[1].value = outcome.value
               /\ onErrorLog[1].managerCloses = 0
          ELSE onErrorLog = <<>>

C6_Witness ==
  /\ pc = "settled" /\ Len(onErrorLog) = 1 /\ ~onErrorLog[1].isClosed
  /\ isClosed /\ managerCloses = 1

\* C7 (as claimed): the promise of reply.datastar resolves for every callback
\* that raised, whatever onError does.
C7_PromiseAlwaysResolves ==
  (pc = "settled" /\ outcome.raised) => result = "resolved"

\* C7 (amended): the promise of reply.datastar rejects exactly when onError was
\* called and itself threw; for every other raising callback it resolves.
C7_PromiseRejectsOnlyWhenOnErrorThrows ==
  /\ pc # "settled" => result = "pending"
  /\ pc = "settled"
       => (result = (IF outcome.raised /\ outcome.isError
                        /\ streamOptions.onError = "throws"
                     THEN "rejected" ELSE "resolved"))

C7_Witness ==
  /\ pc = "settled" /\ outcome.raised /\ ~outcome.isError
  /\ streamOptions.onError = "throws" /\ result = "resolved" /\ isClosed

\* C8: the session reply.datastarStream returns is open and is closed only by an
\* explicit close() of its holder; a configured onAbort is called once when the
\* transport reports closure and never before.
C8_UnmanagedStream ==
  /\ [](pc = "stream"
          => /\ managerCloses = 0
             /\ (isClosed <=> closeCalls > 0)
             /\ (~closeEmitted => onAbortCalls = 0))
  /\ [][(pc = "idle" /\ pc' = "stream") => ~isClosed']_vars
  /\ [][(pc = "stream" /\ streamOptions.onAbort /\ ~closeEmitted /\ closeEmitted')
          => onAbortCalls' = onAbortCalls + 1]_vars

C8_Witness ==
  /\ pc = "stream" /\ streamOptions.onAbort /\ closeEmitted /\ onAbortCalls = 1
  /\ ~isClosed /\ endCalls = 0

\* C9 (as claimed): onAbort given to reply.datastar is called when the transport
\* reports closure while the callback runs.
C9_ManagedOnAbort ==
  [][(pc = "callback" /\ streamOptions.onAbort /\ ~closeEmitted /\ closeEmitted')
       => onAbortCalls' = onAbortCalls + 1]_vars

\* C10: the chunks after the preamble are, in order, one per operation issued on
\* the open session, each a whole frame: it starts with the event line, ends with
\* a blank line and holds no blank line before its end.
OpenOps == SelectSeq([i \in 1..Len(opLog) |-> i], LAMBDA i : ~opLog[i].afterClose)

IsWholeFrame(text) ==
  /\ Len(text) >= 3
  /\ text[1] = "event: "
  /\ text[Len(text)] = "\n" /\ text[Len(text) - 1] = "\n"
  /\ \A k \in 1..(Len(text) - 2) : ~(text[k] = "\n" /\ text[k + 1] = "\n")

C10_PerSessionOrdering ==
  created =>
    /\ Len(writes) = 1 + Len(OpenOps)
    /\ writes[1].op = 0
    /\ \A k \in 1..Len(OpenOps) :
         /\ writes[k + 1].op = OpenOps[k]
         /\ IsWholeFrame(writes[k + 1].text)

C10_Witness ==
  /\ Len(opLog) = 2 /\ Len(writes) = 3 /\ writes[2].op = 1 /\ writes[3].op = 2
  /\ writes[2].text # writes[3].text

\* C11: opening a stream on the reply (reply.datastar or reply.datastarStream)
\* sends the headers and writes, as the first chunk, exactly the frame
\* `retry: <n>` and a blank line, n being the registered defaultRetryDuration
\* (1000 when none, or 0, was registered); no later chunk is a preamble, every
\* later chunk is an event frame, and nothing is written before a stream is opened.
ConfiguredRetry ==
  IF pluginOptions.defaultRetryDuration = Undefined
       \/ pluginOptions.defaultRetryDuration[1] = 0
  THEN 1000 ELSE pluginOptions.defaultRetryDuration[1]

C11_PreambleFirst ==
  /\ [](headersSent <=> created)
  /\ [](~created => writes = <<>>)
  /\ [](created =>
          /\ Len(writes) >= 1
          /\ writes[1].op = 0
          /\ writes[1].text = <<"retry: ", ToString(ConfiguredRetry), "\n", "\n">>
          /\ \A i \in 2..Len(writes) :
               /\ writes[i].op # 0
               /\ writes[i].text[1] = "event: ")
  /\ [][(~created /\ created') => Len(writes') = 1]_vars

C11_Witness ==
  /\ pluginOptions.defaultRetryDuration = Some(2000)
  /\ Len(writes) = 3
  /\ writes[1].text = <<"retry: ", "2000", "\n", "\n">>
  /\ writes[2].op = 1 /\ writes[3].op = 2

\* ------------------------------------------------------------------------
\* Claims about the encoder.  They read the frame as the transport got it: the
\* chunk after the preamble, cut into lines at every line break.
\* ------------------------------------------------------------------------
encoded == call # Undefined /\ Len(writes) = 2

Frame == writes[2].text

RECURSIVE LinesOf(_)
LinesOf(text) ==
  IF \A i \in 1..Len(text) : text[i] # "\n" THEN <<text>>
  ELSE LET i == CHOOSE k \in 1..Len(text) :
                  text[k] = "\n" /\ \A j \in 1..(k - 1) : text[j] # "\n"
       IN <<SubSeq(text, 1, i - 1)>> \o LinesOf(SubSeq(text, i + 1, Len(text)))

StartsWith(line, token) == Len(line) >= 1 /\ line[1] = token
IsHeaderLine(line) ==
  StartsWith(line, "event: ") \/ StartsWith(line, "id: ") \/ StartsWith(line, "retry: ")
IsDataLine(line) == StartsWith(line, "data: ")

KindOf(name) ==
  IF name = "patchSignals" THEN "datastar-patch-signals" ELSE "datastar-patch-elements"

HasEventId == call[1].o.eventId \notin {Undefined, Some(<<>>)}
HasRetryDuration == call[1].o.retryDuration # Undefined

C13_OptionalHeaderLines ==
  encoded =>
    LET lines == LinesOf(Frame)
        ids == {i \in 1..Len(lines) : StartsWith(lines[i], "id: ")}
        retries == {i \in 1..Len(lines) : StartsWith(lines[i], "retry: ")}
        idAt == 2
        retryAt == IF HasEventId THEN 3 ELSE 2
        dataAt == 2 + (IF HasEventId THEN 1 ELSE 0) + (IF HasRetryDuration THEN 1 ELSE 0)
    IN /\ StartsWith(lines[1], "event: ")
       /\ ids = (IF HasEventId THEN {idAt} ELSE {})
       /\ HasEventId => lines[idAt] = <<"id: ">> \o call[1].o.eventId[1]
       /\ retries = (IF HasRetryDuration THEN {retryAt} ELSE {})
       /\ HasRetryDuration
            => lines[retryAt] = <<"retry: ", ToString(call[1].o.retryDuration[1])>>
       /\ IsDataLine(lines[dataAt])
       /\ \A i \in 1..(dataAt - 1) : ~IsDataLine(lines[i])

C13_Witness ==
  /\ encoded /\ call[1].name = "patchSignals"
  /\ call[1].o.eventId = Some(<<"7">>) /\ call[1].o.retryDuration = Some(500)
  /\ SubSeq(Frame, 1, 8) = <<"event: ", "datastar-patch-signals", "\n", "id: ", "7", "\n",
                             "retry: ", "500">>

\* The data lines of the frame, in order.
DataLinesOf(text) == SelectSeq(LinesOf(text), IsDataLine)

\* C14: the frame of patchElements holds the line `data: mode <mode>` exactly
\* when a mode other than outer (and other than '') was given, `data: selector
\* <selector>` exactly when a non-empty selector was given, and
\* `data: useViewTransition true` exactly when useViewTransition is true; these
\* are the first data lines, in that order, and every data line after them is a
\* `data: elements` line.  patchElements("<div>hi</div>", {selector: "#c",
\* mode: "append"}) gives the frame of the README.
C14_DefaultSuppression ==
  (encoded /\ call[1].name = "patchElements") =>
    LET o == call[1].o
        d == DataLinesOf(Frame)
        modeLines == IF o.mode \in {Undefined, Some(<<>>), Some(<<"outer">>)} THEN <<>>
                     ELSE << <<"data: ", "mode", " ">> \o o.mode[1] >>
        selectorLines == IF o.selector \in {Undefined, Some(<<>>)} THEN <<>>
                         ELSE << <<"data: ", "selector", " ">> \o o.selector[1] >>
        transitionLines == IF o.useViewTransition = Some(TRUE)
                           THEN << <<"data: ", "useViewTransition", " ", "true">> >>
                           ELSE <<>>
        expected == modeLines \o selectorLines \o transitionLines
    IN /\ Len(d) > Len(expected)
       /\ SubSeq(d, 1, Len(expected)) = expected
       /\ \A i \in (Len(expected) + 1)..Len(d) :
            SubSeq(d[i], 1, 3) = <<"data: ", "elements", " ">>
       /\ (call[1].a = <<"<div>hi</div>">> /\ o.eventId = Undefined
           /\ o.retryDuration = Undefined /\ o.useViewTransition = Undefined
           /\ o.selector = Some(<<"#c">>) /\ o.mode = Some(<<"append">>))
            => Frame = <<"event: ", "datastar-patch-elements", "\n",
                         "data: ", "mode", " ", "append", "\n",
                         "data: ", "selector", " ", "#c", "\n",
                         "data: ", "elements", " ", "<div>hi</div>", "\n", "\n">>

C14_Witness ==
  /\ encoded /\ call[1].name = "patchElements"
  /\ call[1].o.mode = Some(<<"outer">>) /\ call[1].o.selector = Some(<<"#c">>)
  /\ call[1].o.useViewTransition = Some(TRUE)
  /\ Frame = <<"event: ", "datastar-patch-elements", "\n",
               "data: ", "selector", " ", "#c", "\n",
               "data: ", "useViewTransition", " ", "true", "\n",
               "data: ", "elements", " ", "<div>hi</div>", "\n", "\n">>

\* The payloads of the `data: elements` lines of the frame, in order.
IsElementsLine(line) == Len(line) >= 3 /\ SubSeq(line, 1, 3) = <<"data: ", "elements", " ">>
ElementsPayloads(text) ==
  LET ls == SelectSeq(LinesOf(text), IsElementsLine)
  IN [i \in 1..Len(ls) |-> SubSeq(ls[i], 4, Len(ls[i]))]

\* The lines put together again, a line break between two of them.
RECURSIVE Glue(_)
Glue(ls) == IF Len(ls) = 1 THEN ls[1] ELSE ls[1] \o <<"\n">> \o Glue(Tail(ls))

\* C15: for elements of N lines (one more than its line breaks; empty lines and
\* the empty text included) the frame of patchElements holds exactly N
\* `data: elements <line>` lines, and they carry the lines of the elements in
\* order, the empty ones as a bare prefix.
C15_PerLineElements ==
  (encoded /\ call[1].name = "patchElements") =>
    LET elements == call[1].a
        payloads == ElementsPayloads(Frame)
    IN /\ Len(payloads) = 1 + Cardinality({i \in 1..Len(elements) : elements[i] = "\n"})
       /\ Glue(payloads) = elements
       /\ \A i \in 1..Len(payloads) : \A k \in 1..Len(payloads[i]) : payloads[i][k] # "\n"

C15_Witness ==
  /\ encoded /\ call[1].name = "patchElements" /\ call[1].a = <<"\n", "a">>
  /\ Frame = <<"event: ", "datastar-patch-elements", "\n",
               "data: ", "elements", " ", "\n",
               "data: ", "elements", " ", "a", "\n", "\n">>

\* C16 (as claimed): in every frame each line between the event line and the
\* two closing line breaks is a header line or begins with `data: `, so no
\* payload text stands on an unprefixed line; and the frame of patchSignals holds
\* exactly one `data: signals` line, for a mapping and for a string payload, a
\* string with line breaks included.
IsSignalsLine(line) == Len(line) >= 3 /\ SubSeq(line, 1, 3) = <<"data: ", "signals", " ">>

C16_DataLineInvariant ==
  encoded =>
    LET lines == LinesOf(Frame)
        n == Len(lines)
    IN /\ n >= 4
       /\ lines[n] = <<>> /\ lines[n - 1] = <<>>
       /\ \A i \in 2..(n - 2) : IsHeaderLine(lines[i]) \/ IsDataLine(lines[i])
       /\ call[1].name = "patchSignals"
            => Cardinality({i \in 1..n : IsSignalsLine(lines[i])}) = 1

\* A reader of string literals: the characters after an opening double quote up
\* to the closing one, `\\`, `\"` and `\n` unescaped, with what follows the
\* literal.  A line break or the end of the text inside the literal, or another
\* escape, is a syntax error.
Unreadable == [ok |-> FALSE, value |-> <<>>, rest |-> <<>>]

RECURSIVE ReadChars(_, _)
ReadChars(text, acc) ==
  IF Len(text) = 0 \/ text[1] = "\n" THEN Unreadable
  ELSE IF text[1] = "\"" THEN [ok |-> TRUE, value |-> acc, rest |-> Tail(text)]
  ELSE IF text[1] = "\\"
       THEN IF Len(text) >= 2 /\ text[2] \in {"\\", "\"", "n"}
            THEN ReadChars(SubSeq(text, 3, Len(text)),
                           Append(acc, IF text[2] = "n" THEN "\n" ELSE text[2]))
            ELSE Unreadable
  ELSE ReadChars(Tail(text), Append(acc, text[1]))

\* A reader of compact JSON objects with string and number members: the
\* members in the order written.  White space between the tokens is not accepted.
ReadValue(text) ==
  IF Len(text) = 0 THEN Unreadable
  ELSE IF text[1] = "\"" THEN
         LET r == ReadChars(Tail(text), <<>>)
         IN [ok |-> r.ok, value |-> [str |-> r.value], rest |-> r.rest]
  ELSE IF \E n \in 0..99 : ToString(n) = text[1]
       THEN [ok |-> TRUE, value |-> [num |-> CHOOSE n \in 0..99 : ToString(n) = text[1]],
             rest |-> Tail(text)]
       ELSE Unreadable

RECURSIVE ReadMembers(_, _)
ReadMembers(text, acc) ==
  IF Len(text) = 0 \/ text[1] # "\"" THEN Unreadable
  ELSE LET k == ReadChars(Tail(text), <<>>)
       IN IF ~k.ok \/ Len(k.rest) = 0 \/ k.rest[1] # ":" THEN Unreadable
          ELSE LET v == ReadValue(Tail(k.rest))
                   members == Append(acc, <<k.value, v.value>>)
               IN IF ~v.ok \/ Len(v.rest) = 0 THEN Unreadable
                  ELSE IF v.rest = <<"}">> THEN [ok |-> TRUE, value |-> members, rest |-> <<>>]
                  ELSE IF v.rest[1] = "," THEN ReadMembers(Tail(v.rest), members)
                  ELSE Unreadable

ReadObject(text) ==
  IF text = <<"{", "}">> THEN [ok |-> TRUE, value |-> <<>>, rest |-> <<>>]
  ELSE IF Len(text) >= 1 /\ text[1] = "{" THEN ReadMembers(Tail(text), <<>>)
  ELSE Unreadable

\* C17: the frame of patchSignals holds the line `data: onlyIfMissing true`
\* exactly when onlyIfMissing is true, as the first data line, directly before
\* `data: signals <payload>`, which closes the frame.  For a mapping the payload is
\* one line of compact JSON whose members are the mapping's, in the order
\* supplied ({count: 42, message: "hi"} gives {"count":42,"message":"hi"}); for
\* a string it is that string, verbatim.
C17_PatchSignalsPayload ==
  (encoded /\ call[1].name = "patchSignals") =>
    LET o == call[1].o
        signals == call[1].a
        lines == LinesOf(Frame)
        flagged == o.onlyIfMissing = Some(TRUE)
        flagLines == {i \in 1..Len(lines) :
                        lines[i] = <<"data: ", "onlyIfMissing", " ", "true">>}
        firstData == CHOOSE i \in 1..Len(lines) :
                       IsDataLine(lines[i]) /\ \A j \in 1..(i - 1) : ~IsDataLine(lines[j])
        signalsAt == IF flagged THEN firstData + 1 ELSE firstData
        payload == SubSeq(lines[signalsAt], 4, Len(lines[signalsAt]))
    IN /\ flagLines = (IF flagged THEN {firstData} ELSE {})
       /\ IsSignalsLine(lines[signalsAt])
       /\ IF IsString(signals)
          THEN LET tail == <<"data: ", "signals", " ">> \o signals.str \o <<"\n", "\n">>
               IN /\ Len(Frame) > Len(tail)
                  /\ SubSeq(Frame, Len(Frame) - Len(tail) + 1, Len(Frame)) = tail
                  /\ Frame[Len(Frame) - Len(tail)] = "\n"
          ELSE /\ Len(lines) = signalsAt + 2
               /\ ReadObject(payload) = [ok |-> TRUE, value |-> signals.pairs, rest |-> <<>>]
               /\ signals.pairs = << <<(<<"count">>), [num |-> 42]>>,
                                     <<(<<"message">>), [str |-> <<"hi">>]>> >>
                    => payload = <<"{", "\"", "count", "\"", ":", "42", ",",
                                   "\"", "message", "\"", ":", "\"", "hi", "\"", "}">>

C17_Witness ==
  /\ encoded /\ call[1].name = "patchSignals"
  /\ call[1].o.onlyIfMissing = Some(TRUE)
  /\ Frame = <<"event: ", "datastar-patch-signals", "\n",
               "data: ", "onlyIfMissing", " ", "true", "\n",
               "data: ", "signals", " ",
               "{", "\"", "message", "\"", ":", "\"", "hi", "\"", ",",
               "\"", "count", "\"", ":", "42", "}", "\n", "\n">>

\* The attributes as the claim writes them: ` key="value"` for each pair in order.
RECURSIVE AttributeText(_)
AttributeText(pairs) ==
  IF Len(pairs) = 0 THEN <<>>
  ELSE <<" ">> \o pairs[1][1] \o <<"=\"">> \o pairs[1][2] \o <<"\"">>
       \o AttributeText(Tail(pairs))

\* C18: executeScript(script, {attributes, autoRemove}) writes one frame, of kind
\* datastar-patch-elements, whose data lines are `data: mode append`,
\* `data: selector body` and the `data: elements` lines of
\* `<script ATTRS>script</script>`; ATTRS are the attributes as key="value" in the
\* order supplied, values verbatim, followed by data-on:load="this.remove()"
\* exactly when autoRemove is not false (absent counts as true).
C18_ExecuteScript ==
  (call # Undefined /\ call[1].name = "executeScript") =>
    LET o == call[1].o
        d == DataLinesOf(Frame)
        given == IF o.attributes = Undefined THEN <<>> ELSE AttributeText(o.attributes[1])
        removal == IF o.autoRemove = Some(FALSE) THEN <<>>
                   ELSE <<" ", "data-on:load=\"this.remove()\"">>
        element == <<"<script">> \o given \o removal \o <<">">> \o call[1].a
                   \o <<"</script>">>
    IN /\ Len(writes) = 2
       /\ LinesOf(Frame)[1] = <<"event: ", "datastar-patch-elements">>
       /\ Len(d) >= 3
       /\ d[1] = <<"data: ", "mode", " ", "append">>
       /\ d[2] = <<"data: ", "selector", " ", "body">>
       /\ \A i \in 3..Len(d) : IsElementsLine(d[i])
       /\ Glue(ElementsPayloads(Frame)) = element

C18_Witness ==
  /\ encoded /\ call[1].name = "executeScript" /\ call[1].o.autoRemove = Undefined
  /\ Frame = <<"event: ", "datastar-patch-elements", "\n",
               "data: ", "mode", " ", "append", "\n",
               "data: ", "selector", " ", "body", "\n",
               "data: ", "elements", " ", "<script", " ", "title", "=\"", "a", "\"", "<",
               "\"", " ", "type", "=\"", "module", "\"", " ",
               "data-on:load=\"this.remove()\"", ">", "alert(1)", "</script>", "\n", "\n">>

\* C19: removeElement(selector, options) and removeElements(selector, options)
\* write the frame patchElements("", {selector, mode: "remove", eventId,
\* retryDuration}) writes; for a non-empty selector its data lines are
\* `data: mode remove`, `data: selector <selector>` and one empty
\* `data: elements` line.
C19_RemoveElement ==
  (call # Undefined /\ call[1].name \in {"removeElement", "removeElements"}) =>
    LET selector == call[1].a
        o == call[1].o
        same == patchElements(FALSE, <<>>,
                              [NoOptions EXCEPT !.selector = Some(selector),
                                                !.mode = Some(<<"remove">>),
                                                !.eventId = o.eventId,
                                                !.retryDuration = o.retryDuration])
    IN /\ Len(writes) = 2
       /\ <<Frame>> = same.writes
       /\ LinesOf(Frame)[1] = <<"event: ", "datastar-patch-elements">>
       /\ selector # <<>>
            => DataLinesOf(Frame) = << <<"data: ", "mode", " ", "remove">>,
                                       <<"data: ", "selector", " ">> \o selector,
                                       <<"data: ", "elements", " ">> >>

C19_Witness ==
  /\ encoded /\ call[1].name = "removeElements"
  /\ Frame = <<"event: ", "datastar-patch-elements", "\n", "id: ", "7", "\n",
               "retry: ", "500", "\n",
               "data: ", "mode", " ", "remove", "\n",
               "data: ", "selector", " ", "#gone", "\n",
               "data: ", "elements", " ", "\n", "\n">>

\* C20 (as claimed): for every message, the script consoleLog / consoleError
\* sends is the call console.log("...") / console.error("...") whose string
\* literal is well formed and unescapes to exactly the message.
C20_ConsoleEscaping ==
  (encoded /\ call[1].name \in {"consoleLog", "consoleError"}) =>
    LET element == Glue(ElementsPayloads(Frame))
        n == Len(element)
        opening == IF call[1].name = "consoleLog" THEN "console.log(\""
                   ELSE "console.error(\""
    IN /\ n >= 7
       /\ SubSeq(element, 1, 5)
            = <<"<script", " ", "data-on:load=\"this.remove()\"", ">", opening>>
       /\ SubSeq(element, n - 1, n) = <<"\")", "</script>">>
       /\ ReadChars(SubSeq(element, 6, n - 2) \o <<"\"">>, <<>>)
            = [ok |-> TRUE, value |-> call[1].a, rest |-> <<>>]

\* ------------------------------------------------------------------------
\* Claims about the request decorators
\* ------------------------------------------------------------------------
\* The text readSignals takes the signals from, if it is a string: the query
\* parameter of a GET request, the body of another one.
SourceOf(r) == IF r.method = "GET" THEN r.query ELSE r.body
HasTextSource(r) == SourceOf(r) # Undefined /\ "str" \in DOMAIN SourceOf(r)[1]

\* Sources that are no JSON document, or no URL-encoded text.
MalformedTexts == {<<"{">>, <<"}">>, <<"\"">>, <<"{", "1">>, <<"1", "}">>, <<"{", "{">>,
                   <<"{", "\"", "x", "\"", ":">>}
MalformedEncodings == {<<"%">>, <<"%zz">>, <<"%", "1">>, <<"%7B", "%">>}

\* C21: for every request the promise of readSignals resolves, never rejects,
\* and its value is a success or a failure with a non-empty error message; a
\* source that is malformed JSON, or malformed URL-encoding in a query, gives a
\* failure.
C21_ReadSignalsNeverRaises ==
  inbound.snapshot # Undefined =>
    LET r == inbound.request[1]
        s == inbound.snapshot[1]
    IN /\ ~s.rejected
       /\ s.result.success \in BOOLEAN
       /\ ~s.result.success => (s.result.error # Undefined /\ s.result.error[1] # <<>>)
       /\ (HasTextSource(r) /\ SourceOf(r)[1].str \in MalformedTexts) => ~s.result.success
       /\ (HasTextSource(r) /\ r.method = "GET" /\ SourceOf(r)[1].str \in MalformedEncodings)
            => ~s.result.success

C21_Witness ==
  /\ inbound.snapshot # Undefined
  /\ inbound.request[1].method = "GET"
  /\ inbound.request[1].query = Some([str |-> <<"%7B", "%">>])
  /\ inbound.snapshot[1] = [rejected |-> FALSE,
                            result |-> [success |-> FALSE, signals |-> <<>>,
                                        error |-> << <<"URI malformed">> >>]]

\* C22: a GET request without the datastar query parameter gives
\* {success: true, signals: {}} whatever its body, and any other request without
\* a body, or with an empty one, gives the same whatever its query; the result
\* of a GET request does not depend on the body, that of another request does not
\* depend on the query; a body {"x":1} of a request other than GET gives
\* {success: true, signals: {x: 1}}.
EmptySuccess == [success |-> TRUE, signals |-> << [pairs |-> <<>>] >>, error |-> <<>>]

C22_AbsentSignals ==
  inbound.snapshot # Undefined =>
    LET r == inbound.request[1]
        s == inbound.snapshot[1]
    IN /\ (r.method = "GET" /\ r.query = Undefined) => s.result = EmptySuccess
       /\ (r.method # "GET" /\ r.body \in {Undefined, Some([str |-> <<>>])})
            => s.result = EmptySuccess
       /\ r.method = "GET" => s = readSignals([r EXCEPT !.body = Undefined])
       /\ r.method # "GET" => s = readSignals([r EXCEPT !.query = Undefined])
       /\ (r.method # "GET"
           /\ r.body \in {Some([str |-> <<"{", "\"", "x", "\"", ":", "1", "}">>]),
                          Some([pairs |-> << <<(<<"x">>), [num |-> 1]>> >>])})
            => s.result = [success |-> TRUE,
                           signals |-> << [pairs |-> << <<(<<"x">>), [num |-> 1]>> >>] >>,
                           error |-> <<>>]

C22_Witness ==
  /\ inbound.snapshot # Undefined
  /\ inbound.request[1].method = "GET" /\ inbound.request[1].query = Undefined
  /\ inbound.request[1].body = Some([str |-> <<"{", "\"", "x", "\"", ":", "1", "}">>])
  /\ inbound.snapshot[1].result = EmptySuccess

\* C23 (as claimed): every result of readSignals has the signals field exactly
\* when success is true and the error field exactly when success is false, and
\* the signals of a success are a key-to-value mapping.
C23_SnapshotShape ==
  inbound.snapshot # Undefined =>
    LET s == inbound.snapshot[1].result
    IN /\ s.signals # Undefined <=> s.success
       /\ s.error # Undefined <=> ~s.success
       /\ s.success => "pairs" \in DOMAIN s.signals[1]

\* C24: isDatastarRequest returns true exactly when the datastar-request header
\* is the string `true`: false when it is absent, `TRUE`, `1`, empty, `false` or
\* repeated (`true, true`); and the call leaves the request, the result of
\* readSignals and the reply with its session as they were.
C24_RequestMarker ==
  /\ [](inbound.marker # Undefined =>
          LET header == inbound.request[1].header
          IN /\ inbound.marker[1] \in BOOLEAN
             /\ inbound.marker[1] <=> (header # Undefined /\ header[1] = <<"true">>)
             /\ header \in {Undefined, <<(<<"TRUE">>)>>, <<(<<"1">>)>>, <<(<<>>)>>,
                            <<(<<"false">>)>>, <<(<<"true", ", ", "true">>)>>}
                  => ~inbound.marker[1])
  /\ [][inbound.marker' # inbound.marker
          => /\ inbound'.request = inbound.request
             /\ inbound'.snapshot = inbound.snapshot
             /\ UNCHANGED <<http, refusedCalls, pluginOptions, call, pc, streamOptions, async,
                            outcome, isClosed, headersSent, writes, endCalls, closeEmitted,
                            closeListeners, result, opLog, raisedCount, closeCalls,
                            managerCloses, onErrorLog, onAbortCalls>>]_vars

C24_Witness ==
  /\ inbound.marker = Some(FALSE)
  /\ inbound.request[1].header = Some(<<"true", ", ", "true">>)
  /\ pc = "stream" /\ ~isClosed

\* ------------------------------------------------------------------------
\* Claims about the test server
\* ------------------------------------------------------------------------
\* The events of the request, when its body is an object with an events array.
HasEvents ==
  /\ inbound.request # Undefined /\ inbound.request[1].body # Undefined
  /\ LET b == inbound.request[1].body[1]
     IN /\ "pairs" \in DOMAIN b /\ Len(b.pairs) = 1
        /\ b.pairs[1][1] = <<"events">> /\ "arr" \in DOMAIN b.pairs[1][2]

EventsOf == inbound.request[1].body[1].pairs[1][2].arr

HasField(event, key, value) ==
  \E i \in 1..Len(event.pairs) : event.pairs[i] = <<(<<key>>), [str |-> <<value>>]>>

Recognised(event) ==
  \E t \in {"patchElements", "patchSignals", "executeScript"} : HasField(event, "type", t)

\* The frame each recognised event of the requests stands for.
FrameOfEvent(event) ==
  CASE HasField(event, "elements", "<div>1</div>")
         -> <<"event: ", "datastar-patch-elements", "\n", "id: ", "7", "\n",
              "data: ", "mode", " ", "append", "\n",
              "data: ", "selector", " ", "#c", "\n",
              "data: ", "elements", " ", "<div>1</div>", "\n", "\n">>
    [] HasField(event, "elements", "<p>2</p>")
         -> <<"event: ", "datastar-patch-elements", "\n",
              "data: ", "elements", " ", "<p>2</p>", "\n", "\n">>
    [] HasField(event, "type", "patchSignals")
         -> <<"event: ", "datastar-patch-signals", "\n",
              "data: ", "onlyIfMissing", " ", "true", "\n",
              "data: ", "signals", " ", "{", "\"", "x", "\"", ":", "1", "}", "\n", "\n">>
    [] HasField(event, "type", "executeScript")
         -> <<"event: ", "datastar-patch-elements", "\n",
              "data: ", "mode", " ", "append", "\n",
              "data: ", "selector", " ", "body", "\n",
              "data: ", "elements", " ", "<script", ">", "a", "\n",
              "data: ", "elements", " ", "b", "</script>", "\n", "\n">>

\* C25: for every events array of JSON objects, the /test handler writes, after
\* the preamble, exactly the frames of the events whose type is patchElements,
\* patchSignals or executeScript, in array order, whatever events of another
\* type (or of none) stand before, between and after them, and logs one
\* `Unknown event type` warning for each of those.
C25_UnknownEventKinds ==
  (HasEvents /\ inbound.snapshot # Undefined) =>
    LET recognised == SelectSeq(EventsOf, Recognised)
        unknown == SelectSeq(EventsOf, LAMBDA e : ~Recognised(e))
    IN /\ http.status = 0
       /\ Len(writes) = 1 + Len(recognised)
       /\ \A k \in 1..Len(recognised) : writes[k + 1].text = FrameOfEvent(recognised[k])
       /\ Len(http.warnings) = Len(unknown)
       /\ \A k \in 1..Len(http.warnings) : http.warnings[k][1] = "Unknown event type: "

C25_Witness ==
  /\ HasEvents /\ inbound.snapshot # Undefined
  /\ Len(EventsOf) >= 2 /\ ~Recognised(EventsOf[1]) /\ Recognised(EventsOf[2])
  /\ Len(http.warnings) = 1
  /\ http.warnings[1] = <<"Unknown event type: ", "unknown">>
  /\ Len(writes) = 2
  /\ writes[2].text = <<"event: ", "datastar-patch-elements", "\n",
                        "data: ", "elements", " ", "<p>2</p>", "\n", "\n">>

\* The bodies of the requests that JSON.parse refuses, and those that decode to
\* a payload without an events array.
UnparsableBodies == {Some([str |-> <<"{">>]), Some([str |-> <<"{", "\"", "events", "\"", ":">>])}

Handled == inbound.request # Undefined /\ inbound.snapshot # Undefined

NoStreamOpened ==
  /\ ~headersSent /\ writes = <<>> /\ endCalls = 0 /\ ~created /\ opLog = <<>>

\* C27: when readSignals reports a failure, or the decoded payload has no
\* events array, the /test handler answers 400 with the message (`Failed to
\* read signals: ` and the parse message, or `Missing or invalid events
\* array`) and opens no stream: no headers, no preamble, no frame, no end().
C27_MalformedRequestsOpenNoStream ==
  Handled =>
    LET body == inbound.request[1].body
        snapshot == inbound.snapshot[1].result
    IN /\ (~snapshot.success) =>
            /\ http.status = 400
            /\ http.error = <<"Failed to read signals: ">> \o snapshot.error[1]
            /\ Len(http.error) > 1
            /\ NoStreamOpened
       /\ body \in UnparsableBodies => ~snapshot.success
       /\ body \in BodiesWithoutEvents \ UnparsableBodies =>
            /\ snapshot.success
            /\ http.status = 400
            /\ http.error = <<"Missing or invalid events array">>
            /\ NoStreamOpened
       /\ http.status = 400 => NoStreamOpened

C27_Witness ==
  /\ Handled
  /\ inbound.request[1].body = Some([str |-> <<"{", "\"", "events", "\"", ":">>])
  /\ ~inbound.snapshot[1].result.success
  /\ http.status = 400
  /\ http.error[1] = "Failed to read signals: "
  /\ writes = <<>> /\ ~headersSent

\* ------------------------------------------------------------------------
\* Claims about the lifecycle and the session's state
\* ------------------------------------------------------------------------
\* C26: in reply.datastar with an asynchronous callback, the automatic close is
\* issued only once the callback's promise has settled: while the callback runs
\* no automatic close has happened, every operation the callback issues (the
\* holder not having closed the session itself) is written to the transport,
\* and the step that issues the automatic close starts from the settled
\* callback.
C26_ManagedAwaitsCallback ==
  [][async' =>
       /\ (pc' = "callback" => managerCloses' = 0)
       /\ (managerCloses' > managerCloses => pc = "awaited" /\ pc' = "settled")
       /\ (pc = "callback" /\ Len(opLog') = Len(opLog) + 1 /\ closeCalls = 0) =>
            /\ ~isClosed /\ endCalls = 0
            /\ Len(writes') = Len(writes) + 1
            /\ writes'[Len(writes')].op = Len(opLog')
            /\ ~opLog'[Len(opLog')].afterClose
       /\ (managerCloses' > managerCloses /\ closeCalls = 0) =>
            /\ endCalls' = 1 /\ isClosed' /\ writes' = writes]_vars

C26_Witness ==
  /\ async /\ pc = "settled" /\ result = "resolved"
  /\ closeEmitted
  /\ Len(opLog) = 2
  /\ \A i \in 1..2 : opLog[i].pc = "callback" /\ ~opLog[i].afterClose
  /\ Len(writes) = 3 /\ writes[2].op = 1 /\ writes[3].op = 2
  /\ managerCloses = 1 /\ closeCalls = 0 /\ endCalls = 1 /\ isClosed

\* C29: a session starts with isClosed false; isClosed is true exactly when
\* close() has been called on the session (by its holder or by reply.datastar);
\* once true it stays true; only a close() call changes it; and every
\* operation leaves isClosed and the reply it writes to (headers sent, end()
\* calls, the position of the lifecycle) as they were.
C29_ClosedFlag ==
  [][/\ (~created /\ created') => ~isClosed'
     /\ isClosed => isClosed'
     /\ (isClosed' # isClosed) => (closeCalls' > closeCalls \/ managerCloses' > managerCloses)
     /\ created' => (isClosed' <=> closeCalls' + managerCloses' > 0)
     /\ (Len(opLog') > Len(opLog)) =>
          /\ isClosed' = isClosed /\ endCalls' = endCalls
          /\ headersSent' = headersSent /\ pc' = pc
          /\ closeCalls' = closeCalls /\ managerCloses' = managerCloses]_vars

C29_Witness ==
  /\ created /\ isClosed /\ closeCalls = 2 /\ endCalls = 1
  /\ Len(opLog) = 2 /\ ~opLog[1].afterClose /\ opLog[2].afterClose

\* The sessions bound to the reply: one per preamble written.
Sessions == {i \in 1..Len(writes) : writes[i].op = 0}

\* C30: over every sequence of reply.datastar / reply.datastarStream calls on
\* one reply and of operations and close() calls on its session, nothing is
\* written (preamble or frame) once end() has been invoked, end() is invoked at
\* most once, at most one session is bound to the reply, and a further call
\* of reply.datastar / reply.datastarStream raises without touching the
\* transport or the session.
C30_NoWriteAfterEnd ==
  [][/\ endCalls > 0 => writes' = writes
     /\ endCalls' <= 1
     /\ Cardinality(Sessions') <= 1
     /\ refusedCalls' > refusedCalls =>
          (writes' = writes /\ isClosed' = isClosed /\ endCalls' = endCalls
           /\ headersSent' = headersSent)]_vars

C30_Witness ==
  /\ refusedCalls = 2 /\ endCalls = 1 /\ isClosed
  /\ Len(opLog) = 2 /\ ~opLog[1].afterClose /\ opLog[2].afterClose
  /\ Len(writes) = 2 /\ Cardinality(Sessions) = 1

\* ------------------------------------------------------------------------
\* Claims about the test runner
\* ------------------------------------------------------------------------
\* C28: on every run of the test runner the tests are started only after the
\* server has reported its startup, and when the runner has exited the server
\* process it spawned does not run any more.
C28_RunnerStopsServer ==
  /\ runner.tests # "none" => runner.reported
  /\ runner.exit # Undefined => runner.server \notin {"running", "killed"}
====
